---------------------------- MODULE Spec2Model ----------------------------
(***************************************************************************)
(* A model of the agent gateway of web/backend/main.py: the per-turn       *)
(* streaming pipeline (process_agent_stream), the sandbox check, the        *)
(* PreToolUse / PostToolUse hooks, the trace logger and the metrics         *)
(* collector.  The agent runtime (claude_agent_sdk.query) is the            *)
(* environment: it announces tool uses in assistant messages, invokes the   *)
(* hooks, delivers tool results and ends the stream, or fails.              *)
(*                                                                          *)
(* Strings that the code inspects character by character (file names) are   *)
(* sequences of one-character strings.  A file path is a record             *)
(* [abs, segs]: whether it starts at the root, and its segments.            *)
(***************************************************************************)
EXTENDS Integers, Sequences, FiniteSets, TLC

(***************************************************************************)
(* Bounds of the model.                                                     *)
(***************************************************************************)
\* tool uses the runtime announces in one turn
MaxTools == 2
\* assistant messages (text / thinking / tool-use blocks) per turn
MaxMsgs == 2
\* messages the runtime may have in flight ahead of the translator
MaxInbox == 1
\* the same budgets for a turn whose client may go away
CancelMsgs == 1
CancelTools == 1
\* and for each of two concurrent turns
ConcMsgs == 1
ConcTools == 1
\* segments of a file path given to the sandbox check
MaxPathLen == 4
\* the rate limits the SecurityPolicy of the guard is configured with
\* (the defaults are 60, 20 and 10)
max_operations_per_minute == 3
max_writes_per_minute == 2
max_bash_per_minute == 1
\* the clock readings of the guard: every TickSeconds, up to MaxClock
TickSeconds == 30
MaxClock == 90

(***************************************************************************)
(* Program constants.                                                       *)
(***************************************************************************)
MAX_RETRIES == 3
INITIAL_RETRY_DELAY == 1
MAX_RETRY_DELAY == 10
MAX_TURNS == 30

NoValue == "None"

(***************************************************************************)
(* Strings and paths.                                                       *)
(***************************************************************************)
EmptyStr == << >>

n_backend == <<"b","a","c","k","e","n","d">>
n_sandbox == <<"s","a","n","d","b","o","x">>
n_SANDBOX == <<"S","A","N","D","B","O","X">>
n_etc     == <<"e","t","c">>
n_passwd  == <<"p","a","s","s","w","d">>
n_a_txt   == <<"a",".","t","x","t">>
n_p_html  == <<"p",".","h","t","m","l">>
n_P_HTML  == <<"P",".","H","T","M","L">>
n_dotdot  == <<".",".">>
n_dot     == <<".">>

\* str.lower() on ASCII letters
UpperLetters == <<"A","B","C","D","E","F","G","H","I","J","K","L","M",
                  "N","O","P","Q","R","S","T","U","V","W","X","Y","Z">>
LowerLetters == <<"a","b","c","d","e","f","g","h","i","j","k","l","m",
                  "n","o","p","q","r","s","t","u","v","w","x","y","z">>
LowerOf == [c \in {UpperLetters[i] : i \in 1..26} |->
               LowerLetters[CHOOSE i \in 1..26 : UpperLetters[i] = c]]
LowerChar(c) == IF c \in DOMAIN LowerOf THEN LowerOf[c] ELSE c

Lower(s) == [i \in 1..Len(s) |-> LowerChar(s[i])]

\* s.endswith(suffix)
EndsWith(s, suffix) ==
    /\ Len(s) >= Len(suffix)
    /\ SubSeq(s, Len(s) - Len(suffix) + 1, Len(s)) = suffix

\* a is a prefix of b (segment-wise: Path.relative_to succeeds)
IsPrefix(a, b) ==
    /\ Len(a) <= Len(b)
    /\ SubSeq(b, 1, Len(a)) = a

AbsPath(segs) == [abs |-> TRUE, segs |-> segs]
RelPath(segs) == [abs |-> FALSE, segs |-> segs]
\* the empty string as a file path
EmptyPath == RelPath(<< >>)

BACKEND_ROOT == <<n_backend>>
SANDBOX_ROOT == BACKEND_ROOT \o <<n_sandbox>>
ALLOWED_DIRS == {SANDBOX_ROOT}
\* working directory of the server process (started as `python main.py`
\* in web/backend)
ServerCwd == BACKEND_ROOT

\* lexical treatment of "." and ".." segments, left to right; ".." at the
\* root stays at the root
RECURSIVE NormalizeFrom(_, _)
NormalizeFrom(done, rest) ==
    IF rest = << >> THEN done
    ELSE LET s == Head(rest) IN
         IF s = n_dotdot
         THEN NormalizeFrom(IF done = << >> THEN done
                            ELSE SubSeq(done, 1, Len(done) - 1), Tail(rest))
         ELSE IF s = n_dot \/ s = EmptyStr
         THEN NormalizeFrom(done, Tail(rest))
         ELSE NormalizeFrom(Append(done, s), Tail(rest))

\* Path(file_path).resolve() on a file system without symbolic links: a
\* relative path is taken from the server's working directory
Resolve(p) ==
    NormalizeFrom(<< >>, (IF p.abs THEN << >> ELSE ServerCwd) \o p.segs)

\* file_path.split("/")[-1]: what follows the last "/"
LastSegment(p) == IF p.segs = << >> THEN EmptyStr ELSE p.segs[Len(p.segs)]

\* Path(file_path).name: the last part, empty and "." segments dropped
PathName(p) ==
    LET parts == SelectSeq(p.segs, LAMBDA s : s # EmptyStr /\ s # n_dot) IN
    IF parts = << >> THEN EmptyStr ELSE parts[Len(parts)]

\* sub in s
Contains(s, sub) ==
    \E i \in 0..(Len(s) - Len(sub)) : SubSeq(s, i + 1, i + Len(sub)) = sub

(***************************************************************************)
(* Regular expressions (module re), as far as the patterns of the code use  *)
(* them.  A pattern is a tree; Ends(r, s, i, ic) is the set of positions j  *)
(* such that r matches s[i+1..j], ic being re.IGNORECASE.                   *)
(***************************************************************************)
Letters == {UpperLetters[i] : i \in 1..26} \cup {LowerLetters[i] : i \in 1..26}
Digits == {"0","1","2","3","4","5","6","7","8","9"}
\* \w and \s
WordChars == Letters \cup Digits \cup {"_"}
SpaceChars == {" ", "\t", "\n", "\r"}

Cls(cs) == [k |-> "set", neg |-> FALSE, cs |-> cs]
NotCls(cs) == [k |-> "set", neg |-> TRUE, cs |-> cs]
Chr(c) == Cls({c})
\* "." matches anything but a newline
AnyChar == NotCls({"\n"})
Cat(rs) == [k |-> "seq", rs |-> rs]
Alt(rs) == [k |-> "alt", rs |-> rs]
Star(r) == [k |-> "star", r |-> r]
Plus(r) == Cat(<<r, Star(r)>>)
Opt(r) == Alt(<<r, Cat(<< >>)>>)
\* (?!r) and (?<![cs])
NotAhead(r) == [k |-> "nla", r |-> r]
NotBehind(cs) == [k |-> "nlb", cs |-> cs]
Lit(str) == Cat([i \in 1..Len(str) |-> Chr(str[i])])

InClass(c, r, ic) ==
    (IF ic /\ c \in Letters
     THEN \E x \in r.cs : LowerChar(x) = LowerChar(c)
     ELSE c \in r.cs) # r.neg

RECURSIVE Ends(_, _, _, _)
RECURSIVE EndsSeq(_, _, _, _)
RECURSIVE EndsStar(_, _, _, _, _)
Ends(r, s, i, ic) ==
    CASE r.k = "set" ->
             IF i < Len(s) /\ InClass(s[i + 1], r, ic) THEN {i + 1} ELSE {}
      [] r.k = "seq" -> EndsSeq(r.rs, s, {i}, ic)
      [] r.k = "alt" -> UNION {Ends(r.rs[n], s, i, ic) : n \in 1..Len(r.rs)}
      [] r.k = "star" -> EndsStar(r.r, s, {i}, {i}, ic)
      [] r.k = "nla" -> IF Ends(r.r, s, i, ic) = {} THEN {i} ELSE {}
      [] r.k = "nlb" -> IF i > 0 /\ s[i] \in r.cs THEN {} ELSE {i}

EndsSeq(rs, s, from, ic) ==
    IF rs = << >> \/ from = {} THEN from
    ELSE EndsSeq(Tail(rs), s, UNION {Ends(Head(rs), s, i, ic) : i \in from}, ic)

EndsStar(r, s, seen, fresh, ic) ==
    LET more == UNION {Ends(r, s, i, ic) : i \in fresh} \ seen IN
    IF more = {} THEN seen ELSE EndsStar(r, s, seen \cup more, more, ic)

\* re.search(pattern, s) is not None
re_search(r, s, ic) == \E i \in 0..Len(s) : Ends(r, s, i, ic) # {}

\* containment of the path as written, ".." segments not followed
is_path_in_sandbox_unresolved(file_path) ==
    \E allowed_dir \in ALLOWED_DIRS :
        IsPrefix(allowed_dir,
                 (IF file_path.abs THEN << >> ELSE ServerCwd) \o file_path.segs)

is_path_in_sandbox(file_path) ==
    \E allowed_dir \in ALLOWED_DIRS : IsPrefix(allowed_dir, Resolve(file_path))

(***************************************************************************)
(* sandbox_check_tool: (is_allowed, reason).  tool_input is a record with   *)
(* the keys the code reads; a missing key is the empty string.              *)
(***************************************************************************)
Allow == [allowed |-> TRUE, reason |-> ""]
Deny(reason) == [allowed |-> FALSE, reason |-> reason]

\* the keys file_path, path and pattern of a tool input
ToolInput(file_path) ==
    [file_path |-> file_path, path |-> EmptyPath, pattern |-> EmptyStr]

sensitive_patterns ==
    {<<".","e","n","v">>,
     <<".","e","n","v",".","l","o","c","a","l">>,
     <<".","e","n","v",".","p","r","o","d","u","c","t","i","o","n">>,
     <<"c","r","e","d","e","n","t","i","a","l","s">>,
     <<"s","e","c","r","e","t","s">>}

\* the branch of the read-only tools: the deny list of sensitive names
sandbox_check_read(tool_input) ==
    LET file_path == IF tool_input.file_path # EmptyPath
                     THEN tool_input.file_path ELSE tool_input.path
        file_name == Lower(LastSegment(file_path))
    IN  IF /\ file_path # EmptyPath
           /\ \E sensitive \in sensitive_patterns : Contains(file_name, sensitive)
        THEN Deny("sensitive_file")
        ELSE IF /\ tool_input.pattern # EmptyStr
                /\ \E sensitive \in sensitive_patterns :
                       Contains(Lower(tool_input.pattern), sensitive)
        THEN Deny("sensitive_pattern")
        ELSE Allow

\* the branch of the writing tools: the path must resolve into the sandbox
sandbox_check_write(tool_input) ==
    IF tool_input.file_path = EmptyPath THEN Deny("empty_file_path")
    ELSE IF ~ is_path_in_sandbox(tool_input.file_path)
    THEN Deny("path_not_in_sandbox")
    ELSE Allow

\* str.upper() on ASCII letters
UpperChar(c) ==
    IF c \in {LowerLetters[i] : i \in 1..26}
    THEN UpperLetters[CHOOSE i \in 1..26 : LowerLetters[i] = c] ELSE c

\* s.replace(old, new) for single characters
ReplaceChar(s, old, new) == [i \in 1..Len(s) |-> IF s[i] = old THEN new ELSE s[i]]

\* s.split(sep) for a single character sep
RECURSIVE Split(_, _)
Split(s, sep) ==
    IF \A i \in 1..Len(s) : s[i] # sep THEN <<s>>
    ELSE LET i == CHOOSE i \in 1..Len(s) :
                      s[i] = sep /\ \A j \in 1..(i - 1) : s[j] # sep IN
         <<SubSeq(s, 1, i - 1)>> \o Split(SubSeq(s, i + 1, Len(s)), sep)

\* Path(path_str) where "/" separates the parts: absolute when the string
\* starts with "/"; a backslash or a colon is a character of a name
ParsePath(path_str) ==
    [abs |-> path_str # << >> /\ path_str[1] = "/",
     segs |-> Split(path_str, "/")]

MaxOf(S) == CHOOSE x \in S : \A y \in S : y <= x

\* re.findall(pattern, s): the matches from left to right, none overlapping
\* an earlier one.  The patterns searched this way end in a greedy
\* repetition, so the match at a position is the longest one there, and
\* none of them matches the empty string.
RECURSIVE FindAllFrom(_, _, _, _)
FindAllFrom(r, s, i, ic) ==
    IF i >= Len(s) THEN << >>
    ELSE LET ends == Ends(r, s, i, ic) IN
         IF ends = {} THEN FindAllFrom(r, s, i + 1, ic)
         ELSE <<SubSeq(s, i + 1, MaxOf(ends))>>
                  \o FindAllFrom(r, s, MaxOf(ends), ic)

re_findall(r, s, ic) == FindAllFrom(r, s, 0, ic)

\* [^\s"']
PathChar == NotCls(SpaceChars \cup {"\"", "'"})

path_patterns == <<
    \* [A-Za-z]:[\\\/][^\s"\']+
    Cat(<<Cls(Letters), Chr(":"), Cls({"\\", "/"}), Plus(PathChar)>>),
    \* \/[a-z]\/[^\s"\']+
    Cat(<<Chr("/"), Cls({LowerLetters[i] : i \in 1..26}), Chr("/"),
          Plus(PathChar)>>),
    \* (?<![a-zA-Z0-9_])\/(?!dev\/|proc\/|sys\/)[a-zA-Z][^\s"\']*
    Cat(<<NotBehind(WordChars), Chr("/"),
          NotAhead(Alt(<<Lit(<<"d", "e", "v", "/">>),
                         Lit(<<"p", "r", "o", "c", "/">>),
                         Lit(<<"s", "y", "s", "/">>)>>)),
          Cls(Letters), Star(PathChar)>>)>>

\* the string "/c/rest" rewritten as "C:\rest"
DriveForm(path_str) ==
    IF Len(path_str) > 2 /\ path_str[1] = "/" /\ path_str[3] = "/"
    THEN <<UpperChar(path_str[2]), ":">>
             \o ReplaceChar(SubSeq(path_str, 3, Len(path_str)), "/", "\\")
    ELSE path_str

\* the test of the forward form alone
HasTraversal_slash(command) == Contains(command, <<".", ".", "/">>)

\* "../" in command or "..\\" in command
HasTraversal(command) ==
    Contains(command, <<".", ".", "/">>) \/ Contains(command, <<".", ".", "\\">>)

\* the matches of every pattern, in the order the loops visit them
ExtractedPaths(command) ==
    re_findall(path_patterns[1], command, TRUE)
        \o re_findall(path_patterns[2], command, TRUE)
        \o re_findall(path_patterns[3], command, TRUE)

\* the branch of Bash: no traversal sequence, and every path found in the
\* command inside the sandbox
sandbox_check_bash(tool_input) ==
    IF HasTraversal(tool_input.command) THEN Deny("path_traversal")
    ELSE LET matches == ExtractedPaths(tool_input.command) IN
         IF \E n \in 1..Len(matches) :
                ~ is_path_in_sandbox(ParsePath(DriveForm(matches[n])))
         THEN Deny("path_not_in_sandbox")
         ELSE Allow

\* the tools of the model
ToolNames == {"Read", "Glob", "Grep", "Write", "Edit", "Bash", "Task",
              "WebSearch"}

sandbox_check_tool(tool_name, tool_input) ==
    IF tool_name \in {"Read", "Glob", "Grep"} THEN sandbox_check_read(tool_input)
    ELSE IF tool_name \in {"Write", "Edit"} THEN sandbox_check_write(tool_input)
    ELSE IF tool_name = "Bash" THEN sandbox_check_bash(tool_input)
    ELSE Allow

\* a callback that checks the writing tools alone
sandbox_can_use_tool_writes(tool_name, tool_input) ==
    IF tool_name \in {"Write", "Edit"}
       /\ ~ sandbox_check_tool(tool_name, tool_input).allowed
    THEN "deny" ELSE "allow"

\* the can_use_tool callback: "allow" or "deny"
sandbox_can_use_tool(tool_name, tool_input) ==
    IF sandbox_check_tool(tool_name, tool_input).allowed THEN "allow" ELSE "deny"

(***************************************************************************)
(* examples/safe_sandbox.py: SecurityPolicy and SecurityGuard.  The guard   *)
(* is asked, in the PreToolUse hook of the sandboxed agent, whether an      *)
(* operation may run; it keeps the times of the operations it allowed.      *)
(***************************************************************************)
Space == Cls(SpaceChars)

\* SecurityPolicy.dangerous_commands
dangerous_commands == <<
    \* rm\s+-rf
    Cat(<<Lit(<<"r", "m">>), Plus(Space), Lit(<<"-", "r", "f">>)>>),
    \* rm\s+-r\s+/
    Cat(<<Lit(<<"r", "m">>), Plus(Space), Lit(<<"-", "r">>), Plus(Space), Lit(<<"/">>)>>),
    \* rmdir\s+/s
    Cat(<<Lit(<<"r", "m", "d", "i", "r">>), Plus(Space), Lit(<<"/", "s">>)>>),
    \* del\s+/[fqs]
    Cat(<<Lit(<<"d", "e", "l">>), Plus(Space), Lit(<<"/">>), Cls({"f", "q", "s"})>>),
    \* format\s+
    Cat(<<Lit(<<"f", "o", "r", "m", "a", "t">>), Plus(Space)>>),
    \* mkfs\.
    Lit(<<"m", "k", "f", "s", ".">>),
    \* dd\s+if=
    Cat(<<Lit(<<"d", "d">>), Plus(Space), Lit(<<"i", "f", "=">>)>>),
    \* >\s*/dev/
    Cat(<<Lit(<<">">>), Star(Space), Lit(<<"/", "d", "e", "v", "/">>)>>),
    \* shutdown
    Lit(<<"s", "h", "u", "t", "d", "o", "w", "n">>),
    \* reboot
    Lit(<<"r", "e", "b", "o", "o", "t">>),
    \* halt
    Lit(<<"h", "a", "l", "t">>),
    \* init\s+0
    Cat(<<Lit(<<"i", "n", "i", "t">>), Plus(Space), Lit(<<"0">>)>>),
    \* curl.*\|\s*(bash|sh)
    Cat(<<Lit(<<"c", "u", "r", "l">>), Star(AnyChar), Lit(<<"|">>), Star(Space), Alt(<<Lit(<<"b", "a", "s", "h">>), Lit(<<"s", "h">>)>>)>>),
    \* wget.*\|\s*(bash|sh)
    Cat(<<Lit(<<"w", "g", "e", "t">>), Star(AnyChar), Lit(<<"|">>), Star(Space), Alt(<<Lit(<<"b", "a", "s", "h">>), Lit(<<"s", "h">>)>>)>>),
    \* eval\s*\(
    Cat(<<Lit(<<"e", "v", "a", "l">>), Star(Space), Lit(<<"(">>)>>),
    \* exec\s*\(
    Cat(<<Lit(<<"e", "x", "e", "c">>), Star(Space), Lit(<<"(">>)>>)>>

\* SecurityPolicy.sensitive_patterns: the pattern, and whether it starts
\* with the flag (?i)
policy_sensitive_patterns == <<
    \* (?i)password\s*[=:]\s*['"]?\w+
    [re |-> Cat(<<Lit(<<"p", "a", "s", "s", "w", "o", "r", "d">>), Star(Space), Cls({"=", ":"}), Star(Space), Opt(Cls({"'", "\""})), Plus(Cls(WordChars))>>),
     ic |-> TRUE],
    \* (?i)api[_-]?key\s*[=:]\s*['"]?\w+
    [re |-> Cat(<<Lit(<<"a", "p", "i">>), Opt(Cls({"_", "-"})), Lit(<<"k", "e", "y">>), Star(Space), Cls({"=", ":"}), Star(Space), Opt(Cls({"'", "\""})), Plus(Cls(WordChars))>>),
     ic |-> TRUE],
    \* (?i)secret\s*[=:]\s*['"]?\w+
    [re |-> Cat(<<Lit(<<"s", "e", "c", "r", "e", "t">>), Star(Space), Cls({"=", ":"}), Star(Space), Opt(Cls({"'", "\""})), Plus(Cls(WordChars))>>),
     ic |-> TRUE],
    \* (?i)token\s*[=:]\s*['"]?\w+
    [re |-> Cat(<<Lit(<<"t", "o", "k", "e", "n">>), Star(Space), Cls({"=", ":"}), Star(Space), Opt(Cls({"'", "\""})), Plus(Cls(WordChars))>>),
     ic |-> TRUE],
    \* -----BEGIN\s+(RSA\s+)?PRIVATE\s+KEY-----
    [re |-> Cat(<<Lit(<<"-", "-", "-", "-", "-", "B", "E", "G", "I", "N">>), Plus(Space), Opt(Cat(<<Lit(<<"R", "S", "A">>), Plus(Space)>>)), Lit(<<"P", "R", "I", "V", "A", "T", "E">>), Plus(Space), Lit(<<"K", "E", "Y", "-", "-", "-", "-", "-">>)>>),
     ic |-> FALSE],
    \* (?i)aws[_-]?access[_-]?key
    [re |-> Cat(<<Lit(<<"a", "w", "s">>), Opt(Cls({"_", "-"})), Lit(<<"a", "c", "c", "e", "s", "s">>), Opt(Cls({"_", "-"})), Lit(<<"k", "e", "y">>)>>),
     ic |-> TRUE],
    \* (?i)aws[_-]?secret
    [re |-> Cat(<<Lit(<<"a", "w", "s">>), Opt(Cls({"_", "-"})), Lit(<<"s", "e", "c", "r", "e", "t">>)>>),
     ic |-> TRUE]>>

\* SecurityPolicy.blocked_paths
blocked_paths == <<
    <<".", "e", "n", "v">>,
    <<".", "e", "n", "v", ".", "*">>,
    <<"*", "*", "/", "c", "r", "e", "d", "e", "n", "t", "i", "a", "l", "s", "*">>,
    <<"*", "*", "/", "s", "e", "c", "r", "e", "t", "s", "*">>,
    <<"*", "*", "/", "*", ".", "p", "e", "m">>,
    <<"*", "*", "/", "*", ".", "k", "e", "y">>,
    <<"*", "*", "/", "p", "a", "s", "s", "w", "o", "r", "d", "*">>,
    <<"*", "*", "/", "t", "o", "k", "e", "n", "*">>,
    <<"*", "*", "/", ".", "g", "i", "t", "/", "*", "*">>,
    <<"*", "*", "/", "n", "o", "d", "e", "_", "m", "o", "d", "u", "l", "e", "s", "/", "*", "*">>>>

\* SecurityPolicy.blocked_extensions
blocked_extensions == {
    <<".", "e", "x", "e">>,
    <<".", "d", "l", "l">>,
    <<".", "s", "o">>,
    <<".", "d", "y", "l", "i", "b">>,
    <<".", "s", "h">>,
    <<".", "b", "a", "t">>,
    <<".", "c", "m", "d">>,
    <<".", "p", "s", "1">>}

\* the time window of the rate limits, in seconds
RATE_WINDOW == 60

\* SecurityGuard.work_dir: the directory the example is started in
n_work == <<"w","o","r","k">>
work_dir == <<n_work>>

\* BlockReason values
PATH_BLACKLIST == "path_in_blacklist"
PATH_NOT_IN_WHITELIST == "path_not_in_whitelist"
DANGEROUS_COMMAND == "dangerous_command"
SENSITIVE_CONTENT == "sensitive_content"
RATE_LIMIT == "rate_limit_exceeded"
EXTENSION_BLOCKED == "file_extension_blocked"

GuardAllow == [allowed |-> TRUE, reason |-> NoValue]
GuardDeny(reason) == [allowed |-> FALSE, reason |-> reason]

\* fnmatch.fnmatch(name, pat) on a file system with case-sensitive names:
\* "*" matches any run of characters, "/" included, "?" any one character
GlobToRe(pat) ==
    Cat([i \in 1..Len(pat) |->
            IF pat[i] = "*" THEN Star(NotCls({}))
            ELSE IF pat[i] = "?" THEN NotCls({})
            ELSE Chr(pat[i])])
fnmatch(name, pat) == Len(name) \in Ends(GlobToRe(pat), name, 0, FALSE)

\* "/".join(segs)
RECURSIVE JoinPath(_)
JoinPath(segs) ==
    IF segs = << >> THEN EmptyStr
    ELSE IF Len(segs) = 1 THEN Head(segs)
    ELSE Head(segs) \o <<"/">> \o JoinPath(Tail(segs))

\* Path.suffix of a file name
Suffix(name) ==
    LET dots == {i \in 1..Len(name) : name[i] = "."} IN
    IF dots = {} THEN EmptyStr
    ELSE LET i == CHOOSE d \in dots : \A e \in dots : e <= d IN
         IF i > 1 /\ i < Len(name) THEN SubSeq(name, i, Len(name))
         ELSE EmptyStr

\* SecurityGuard._check_path, with no white list and no list of allowed
\* extensions configured (the defaults of SecurityPolicy)
_check_path(path) ==
    LET target_path ==
            NormalizeFrom(<< >>, (IF path.abs THEN << >> ELSE work_dir)
                                     \o path.segs)
        name == IF target_path = << >> THEN EmptyStr
                ELSE target_path[Len(target_path)]
        ext == Lower(Suffix(name))
        rel_str ==
            IF IsPrefix(work_dir, target_path)
            THEN JoinPath(SubSeq(target_path, Len(work_dir) + 1,
                                 Len(target_path)))
            ELSE <<"/">> \o JoinPath(target_path)
    IN  IF ext \in blocked_extensions THEN GuardDeny(EXTENSION_BLOCKED)
        ELSE IF \E n \in 1..Len(blocked_paths) :
                    \/ fnmatch(rel_str, blocked_paths[n])
                    \/ fnmatch(name, blocked_paths[n])
        THEN GuardDeny(PATH_BLACKLIST)
        ELSE GuardAllow

\* a check of commands that compares letters exactly
_check_command_exact(command) ==
    IF \E n \in 1..Len(dangerous_commands) :
           re_search(dangerous_commands[n], command, FALSE)
    THEN GuardDeny(DANGEROUS_COMMAND)
    ELSE GuardAllow

\* SecurityGuard._check_command
_check_command(command) ==
    IF \E n \in 1..Len(dangerous_commands) :
           re_search(dangerous_commands[n], command, TRUE)
    THEN GuardDeny(DANGEROUS_COMMAND)
    ELSE GuardAllow

\* SecurityGuard._check_content
_check_content(content) ==
    IF \E n \in 1..Len(policy_sensitive_patterns) :
           re_search(policy_sensitive_patterns[n].re, content,
                     policy_sensitive_patterns[n].ic)
    THEN GuardDeny(SENSITIVE_CONTENT)
    ELSE GuardAllow

\* SecurityGuard.__init__
NewGuard == [_operation_times |-> << >>, _write_times |-> << >>,
             _bash_times |-> << >>]

\* a clean-up that keeps the entries exactly one window old
_cleanup_old_times_late(g, current_time) ==
    LET cutoff == current_time - RATE_WINDOW
        Keep(times) == SelectSeq(times, LAMBDA t : t >= cutoff)
    IN  [_operation_times |-> Keep(g._operation_times),
         _write_times |-> Keep(g._write_times),
         _bash_times |-> Keep(g._bash_times)]

\* SecurityGuard._cleanup_old_times
_cleanup_old_times(g, current_time) ==
    LET cutoff == current_time - RATE_WINDOW
        Keep(times) == SelectSeq(times, LAMBDA t : t > cutoff)
    IN  [_operation_times |-> Keep(g._operation_times),
         _write_times |-> Keep(g._write_times),
         _bash_times |-> Keep(g._bash_times)]

\* tool_input.get(key, ""), and the path fields of tool_input in the order
\* check_operation visits them
Get(tool_input, key) ==
    IF key \in DOMAIN tool_input THEN tool_input[key] ELSE EmptyStr
PathFields(tool_input) ==
    SelectSeq(<<"file_path", "path">>, LAMBDA f : f \in DOMAIN tool_input)

\* a guard that counts the denied operations too
check_operation_counting(g0, current_time, tool_name, tool_input) ==
    LET g == _cleanup_old_times(g0, current_time)
        fields == PathFields(tool_input)
        bad == {n \in 1..Len(fields) :
                   ~ _check_path(tool_input[fields[n]]).allowed}
        command == IF tool_name = "Bash"
                   THEN _check_command(Get(tool_input, "command"))
                   ELSE GuardAllow
        content == IF tool_name = "Write"
                   THEN _check_content(Get(tool_input, "content"))
                   ELSE GuardAllow
        result ==
            IF Len(g._operation_times) >= max_operations_per_minute
            THEN GuardDeny(RATE_LIMIT)
            ELSE IF tool_name = "Write"
                    /\ Len(g._write_times) >= max_writes_per_minute
            THEN GuardDeny(RATE_LIMIT)
            ELSE IF tool_name = "Bash"
                    /\ Len(g._bash_times) >= max_bash_per_minute
            THEN GuardDeny(RATE_LIMIT)
            ELSE IF bad # {}
            THEN _check_path(tool_input[
                     fields[CHOOSE n \in bad : \A m \in bad : n <= m]])
            ELSE IF ~ command.allowed THEN command
            ELSE IF ~ content.allowed THEN content
            ELSE GuardAllow
    IN  [guard |->
             IF result.allowed
             THEN [_operation_times |-> Append(g._operation_times, current_time),
                   _write_times |->
                       IF tool_name = "Write"
                       THEN Append(g._write_times, current_time)
                       ELSE g._write_times,
                   _bash_times |->
                       IF tool_name = "Bash"
                       THEN Append(g._bash_times, current_time)
                       ELSE g._bash_times]
             ELSE [g EXCEPT !._operation_times = Append(@, current_time)],
         result |-> result]

\* SecurityGuard.check_operation at the time current_time: the guard after
\* the call, and (allowed, reason)
check_operation(g0, current_time, tool_name, tool_input) ==
    LET g == _cleanup_old_times(g0, current_time)
        fields == PathFields(tool_input)
        bad == {n \in 1..Len(fields) :
                   ~ _check_path(tool_input[fields[n]]).allowed}
        command == IF tool_name = "Bash"
                   THEN _check_command(Get(tool_input, "command"))
                   ELSE GuardAllow
        content == IF tool_name = "Write"
                   THEN _check_content(Get(tool_input, "content"))
                   ELSE GuardAllow
        result ==
            IF Len(g._operation_times) >= max_operations_per_minute
            THEN GuardDeny(RATE_LIMIT)
            ELSE IF tool_name = "Write"
                    /\ Len(g._write_times) >= max_writes_per_minute
            THEN GuardDeny(RATE_LIMIT)
            ELSE IF tool_name = "Bash"
                    /\ Len(g._bash_times) >= max_bash_per_minute
            THEN GuardDeny(RATE_LIMIT)
            ELSE IF bad # {}
            THEN _check_path(tool_input[
                     fields[CHOOSE n \in bad : \A m \in bad : n <= m]])
            ELSE IF ~ command.allowed THEN command
            ELSE IF ~ content.allowed THEN content
            ELSE GuardAllow
    IN  [guard |->
             IF result.allowed
             THEN [_operation_times |-> Append(g._operation_times, current_time),
                   _write_times |->
                       IF tool_name = "Write"
                       THEN Append(g._write_times, current_time)
                       ELSE g._write_times,
                   _bash_times |->
                       IF tool_name = "Bash"
                       THEN Append(g._bash_times, current_time)
                       ELSE g._bash_times]
             ELSE g,
         result |-> result]

(***************************************************************************)
(* State.  Every per-turn object is a function of the turn.                 *)
(***************************************************************************)
Turns == {1, 2}

VARIABLES
    pc,                  \* where each turn's generator stands
    out,                 \* the SSE frames each turn has yielded, in order
    current_text,        \* process_agent_stream locals
    tool_states,
    current_iteration,
    current_depth,
    xl,                  \* the other locals: tools_used, stop_reason,
                         \* first_token_recorded, retry_count, the blocks of
                         \* the message being handled and its parallel group
    hook_events_queue,   \* the turn's hook event queue
    pending_html_files,  \* the turn's pending-artifact map
    tracer,              \* the turn's TraceLogger, with the file it wrote
    metrics_collector,   \* the process-wide MetricsCollector
    inbox,               \* messages the runtime produced, not yet consumed
    rt,                  \* the agent runtime of each turn
    probe,               \* a call of the sandbox check: its arguments and,
                         \* once it has returned, its result
    guard,               \* the SecurityGuard of the sandboxed example agent
    clock                \* time.time(), in seconds

vars == <<pc, out, current_text, tool_states, current_iteration,
          current_depth, xl, hook_events_queue, pending_html_files, tracer,
          metrics_collector, inbox, rt, probe, guard, clock>>

(***************************************************************************)
(* TraceLogger.                                                             *)
(***************************************************************************)
ZeroStats ==
    [tool_calls |-> 0, iterations |-> 0, sub_agents |-> 0, errors |-> 0,
     hooks_triggered |-> 0, sandbox_blocks |-> 0, thinking_blocks |-> 0,
     thinking_chars |-> 0]

\* the JSON document _save writes: the metadata and the events so far
_save(tr) ==
    [tr EXCEPT !.file = [written |-> TRUE, metadata |-> tr.metadata,
                         events |-> Len(tr.events)]]

\* TraceLogger.__init__ : nothing is written until the first log
NewTraceLogger ==
    [metadata |-> [status |-> "running", finalized |-> FALSE,
                   error |-> NoValue],
     events   |-> << >>,
     stats    |-> ZeroStats,
     file     |-> [written |-> FALSE]]

\* a stats update that counts every tool_start as a sub-agent
UpdateStats_every_tool(stats, event_type, data) ==
    IF event_type = "tool_start"
    THEN [stats EXCEPT
            !.tool_calls = @ + 1,
            !.sub_agents = @ + 1,
            !.iterations = IF data.iteration > @ THEN data.iteration ELSE @]
    ELSE IF event_type = "error" THEN [stats EXCEPT !.errors = @ + 1]
    ELSE IF event_type = "sandbox_block"
    THEN [stats EXCEPT !.sandbox_blocks = @ + 1]
    ELSE IF event_type \in {"hook_pre_tool", "hook_post_tool"}
    THEN [stats EXCEPT !.hooks_triggered = @ + 1]
    ELSE IF event_type = "thinking"
    THEN [stats EXCEPT !.thinking_blocks = @ + 1,
                       !.thinking_chars = @ + data.length]
    ELSE stats

\* the stats update of TraceLogger.log
UpdateStats(stats, event_type, data) ==
    IF event_type = "tool_start"
    THEN [stats EXCEPT
            !.tool_calls = @ + 1,
            !.sub_agents = IF data.name = "Task" THEN @ + 1 ELSE @,
            !.iterations = IF data.iteration > @ THEN data.iteration ELSE @]
    ELSE IF event_type = "error" THEN [stats EXCEPT !.errors = @ + 1]
    ELSE IF event_type = "sandbox_block"
    THEN [stats EXCEPT !.sandbox_blocks = @ + 1]
    ELSE IF event_type \in {"hook_pre_tool", "hook_post_tool"}
    THEN [stats EXCEPT !.hooks_triggered = @ + 1]
    ELSE IF event_type = "thinking"
    THEN [stats EXCEPT !.thinking_blocks = @ + 1,
                       !.thinking_chars = @ + data.length]
    ELSE stats

\* TraceLogger.log: update the stats, append the event, write the file
log(tr, event_type, data) ==
    _save([tr EXCEPT
             !.stats  = UpdateStats(@, event_type, data),
             !.events = Append(@, [event_type |-> event_type, data |-> data])])

\* TraceLogger.log_error
log_error(tr, error) ==
    log([tr EXCEPT !.metadata.status = "error", !.metadata.error = error],
        "error", [type |-> error])

\* complete without the write
complete_unsaved(tr) ==
    [tr EXCEPT !.metadata.status = "completed", !.metadata.finalized = TRUE]

\* TraceLogger.complete: status, end_time, duration_ms and stats, then write
complete(tr) ==
    _save([tr EXCEPT !.metadata.status = "completed",
                     !.metadata.finalized = TRUE])

NoData == [none |-> TRUE]

(***************************************************************************)
(* MetricsCollector.                                                        *)
(***************************************************************************)
ErrorKinds == {"ConnectionError", "ProcessError"}
RETRYABLE_ERRORS == {"ConnectionError"}

\* MetricsCollector.reset
ResetMetrics ==
    [requests   |-> [total |-> 0, success |-> 0, error |-> 0],
     latencies  |-> 0,
     ttft       |-> 0,
     tokens     |-> [total_input |-> 0, total_output |-> 0],
     tool_calls |-> 0,
     errors     |-> [k \in ErrorKinds |-> 0]]

record_request_start(m) == [m EXCEPT !.requests.total = @ + 1]

record_first_token(m) == [m EXCEPT !.ttft = @ + 1]

\* a collector whose requests.total counts the requests in flight
record_request_complete_inflight(m, success) ==
    [m EXCEPT !.latencies = @ + 1,
              !.requests.total = @ - 1,
              !.requests.success = IF success THEN @ + 1 ELSE @,
              !.requests.error   = IF success THEN @ ELSE @ + 1]

record_request_complete(m, success) ==
    [m EXCEPT !.latencies = @ + 1,
              !.requests.success = IF success THEN @ + 1 ELSE @,
              !.requests.error   = IF success THEN @ ELSE @ + 1]

record_tokens(m, input_tokens, output_tokens) ==
    [m EXCEPT !.tokens.total_input  = @ + input_tokens,
              !.tokens.total_output = @ + output_tokens]

record_tool_call(m) == [m EXCEPT !.tool_calls = @ + 1]

\* a collector that files every error under the kind the retry loop handles
record_error_generic(m, error_type) ==
    [m EXCEPT !.errors["ConnectionError"] = @ + 1]

record_error(m, error_type) == [m EXCEPT !.errors[error_type] = @ + 1]

(***************************************************************************)
(* sanitize_utf8_text: re.sub(r'\ufffd{1,4}', '', text), scanning from    *)
(* the left and deleting each run of one to four replacement characters.    *)
(***************************************************************************)
FFFD == "U+FFFD"

RECURSIVE SkipRun(_, _)
SkipRun(text, n) ==
    IF n = 0 \/ text = << >> \/ Head(text) # FFFD THEN text
    ELSE SkipRun(Tail(text), n - 1)

\* a filter that removes one match of the pattern and stops
sanitize_utf8_text_once(text) ==
    IF \E i \in 1..Len(text) : text[i] = FFFD
    THEN LET i == CHOOSE i \in 1..Len(text) :
                      /\ text[i] = FFFD
                      /\ \A j \in 1..(i - 1) : text[j] # FFFD
         IN  SubSeq(text, 1, i - 1)
                 \o SkipRun(SubSeq(text, i, Len(text)), 4)
    ELSE text

RECURSIVE sanitize_utf8_text(_)
sanitize_utf8_text(text) ==
    IF text = << >> THEN text
    ELSE IF Head(text) = FFFD THEN sanitize_utf8_text(SkipRun(text, 4))
    ELSE <<Head(text)>> \o sanitize_utf8_text(Tail(text))

\* text[n:]
DropFirst(text, n) ==
    IF n >= Len(text) THEN << >> ELSE SubSeq(text, n + 1, Len(text))

(***************************************************************************)
(* SSE frames (format_sse), with the payload fields the properties read.    *)
(***************************************************************************)
F_session_config == [type |-> "session_config"]
F_text_delta(text) == [type |-> "text_delta", notice |-> FALSE, text |-> text]
\* a notice that counts the attempts, the first one included
F_retry_notice_attempts(attempt, max_retries, delay) ==
    [type |-> "text_delta", notice |-> TRUE, attempt |-> attempt + 1,
     max_retries |-> max_retries + 1, delay |-> delay,
     text |-> <<"[", ToString(attempt + 1), "/", ToString(max_retries + 1),
                ToString(delay), "s", "]">>]

\* the retry notice, a text_delta whose text names the retry
F_retry_notice(attempt, max_retries, delay) ==
    [type |-> "text_delta", notice |-> TRUE, attempt |-> attempt,
     max_retries |-> max_retries, delay |-> delay,
     text |-> <<"[", ToString(attempt), "/", ToString(max_retries),
                ToString(delay), "s", "]">>]
F_thinking_delta(thinking) == [type |-> "thinking_delta", thinking |-> thinking]
F_tool_start(tool_id, name, iteration) ==
    [type |-> "tool_start", tool_id |-> tool_id, name |-> name,
     iteration |-> iteration]
\* a result frame that names a tool use no block has announced
F_tool_result_anonymous(tool_id, status) ==
    [type |-> "tool_result", tool_id |-> <<0, 0>>, status |-> status]
F_tool_result(tool_id, status) ==
    [type |-> "tool_result", tool_id |-> tool_id, status |-> status]
F_agent_spawn(tool_id, iteration, depth) ==
    [type |-> "agent_spawn", agent_id |-> tool_id, iteration |-> iteration,
     depth |-> depth]
F_agent_complete(tool_id) == [type |-> "agent_complete", agent_id |-> tool_id]
F_cost_update(usage) == [type |-> "cost_update", usage |-> usage]
F_message_complete(tools_used, stop_reason) ==
    [type |-> "message_complete", tools_used |-> tools_used,
     stop_reason |-> stop_reason]
F_error(details) == [type |-> "error", details |-> details]

\* the frame the drain loop yields for one queued hook event; an event of
\* another type is popped and yields nothing.  origin and tool_use_id are
\* not part of the payload: they record which turn's hook queued the event,
\* and for which tool use.
HookFrame(hook_event) ==
    IF hook_event.type = "pre_tool"
    THEN <<[type |-> "hook_pre_tool", tool_name |-> hook_event.tool_name,
            action |-> hook_event.action, origin |-> hook_event.origin,
            tool_use_id |-> hook_event.tool_use_id]>>
    ELSE IF hook_event.type = "post_tool"
    THEN <<[type |-> "hook_post_tool", tool_name |-> hook_event.tool_name,
            origin |-> hook_event.origin]>>
    ELSE << >>

\* while hook_events_queue: pop(0) and yield
RECURSIVE DrainHookEvents(_)
DrainHookEvents(queue) ==
    IF queue = << >> THEN << >>
    ELSE HookFrame(Head(queue)) \o DrainHookEvents(Tail(queue))

(***************************************************************************)
(* The hooks.  Each returns the trace logger, the queue and the pending     *)
(* map as the callback leaves them, and its decision.                       *)
(***************************************************************************)
\* one queue and one pending map for the whole process
HookStateOf_global(t) == 1

\* the queue and the pending map a turn's hook closures are bound to: the
\* ones created by that turn's process_agent_stream call
HookStateOf(t) == t

keep_stream_open_hook(tr, tool_use_id) ==
    log(tr, "hook_keep_stream", [tool_use_id |-> tool_use_id])

\* file_path.lower().endswith('.html'), for a Write with a tool use id
IsHtmlWrite(tool_name, tool_input) ==
    /\ tool_name = "Write"
    /\ EndsWith(Lower(LastSegment(tool_input.file_path)),
                <<".","h","t","m","l">>)

\* the truth value of a tool result: None and the empty result are false
Truthy(tool_result) == tool_result \notin {NoValue, ""}

MapPut(f, k, v) == [x \in DOMAIN f \cup {k} |-> IF x = k THEN v ELSE f[x]]
MapDel(f, k) == [x \in DOMAIN f \ {k} |-> f[x]]
EmptyMap == [x \in {} |-> NoValue]

\* a hook that reports only the denials
pre_tool_hook_quiet(tr, queue, pending, tool_name, tool_input, tool_use_id, origin) ==
    LET chk == sandbox_check_tool(tool_name, tool_input) IN
    IF ~ chk.allowed
    THEN [tracer   |-> log(tr, "sandbox_block",
                           [tool_name |-> tool_name,
                            tool_use_id |-> tool_use_id,
                            reason |-> chk.reason]),
          queue    |-> Append(queue, [type |-> "pre_tool",
                                      tool_name |-> tool_name,
                                      action |-> "block",
                                      origin |-> origin,
                                      tool_use_id |-> tool_use_id]),
          pending  |-> pending,
          decision |-> "block"]
    ELSE [tracer   |-> log(tr, "hook_pre_tool",
                           [tool_name |-> tool_name,
                            tool_use_id |-> tool_use_id,
                            action |-> "allow"]),
          queue    |-> queue,
          pending  |-> IF IsHtmlWrite(tool_name, tool_input)
                       THEN MapPut(pending, tool_use_id, tool_input.file_path)
                       ELSE pending,
          decision |-> "continue"]

\* a hook that files a denial as a failure of the turn
pre_tool_hook_failing(tr, queue, pending, tool_name, tool_input, tool_use_id, origin) ==
    LET chk == sandbox_check_tool(tool_name, tool_input) IN
    IF ~ chk.allowed
    THEN [tracer   |-> log_error(tr, "SandboxError"),
          queue    |-> Append(queue, [type |-> "pre_tool",
                                      tool_name |-> tool_name,
                                      action |-> "block",
                                      origin |-> origin,
                                      tool_use_id |-> tool_use_id]),
          pending  |-> pending,
          decision |-> "block"]
    ELSE [tracer   |-> log(tr, "hook_pre_tool",
                           [tool_name |-> tool_name,
                            tool_use_id |-> tool_use_id,
                            action |-> "allow"]),
          queue    |-> Append(queue, [type |-> "pre_tool",
                                      tool_name |-> tool_name,
                                      action |-> "allow",
                                      origin |-> origin,
                                      tool_use_id |-> tool_use_id]),
          pending  |-> IF IsHtmlWrite(tool_name, tool_input)
                       THEN MapPut(pending, tool_use_id, tool_input.file_path)
                       ELSE pending,
          decision |-> "continue"]

pre_tool_hook(tr, queue, pending, tool_name, tool_input, tool_use_id, origin) ==
    LET chk == sandbox_check_tool(tool_name, tool_input) IN
    IF ~ chk.allowed
    THEN [tracer   |-> log(tr, "sandbox_block",
                           [tool_name |-> tool_name,
                            tool_use_id |-> tool_use_id,
                            reason |-> chk.reason]),
          queue    |-> Append(queue, [type |-> "pre_tool",
                                      tool_name |-> tool_name,
                                      action |-> "block",
                                      origin |-> origin,
                                      tool_use_id |-> tool_use_id]),
          pending  |-> pending,
          decision |-> "block"]
    ELSE [tracer   |-> log(tr, "hook_pre_tool",
                           [tool_name |-> tool_name,
                            tool_use_id |-> tool_use_id,
                            action |-> "allow"]),
          queue    |-> Append(queue, [type |-> "pre_tool",
                                      tool_name |-> tool_name,
                                      action |-> "allow",
                                      origin |-> origin,
                                      tool_use_id |-> tool_use_id]),
          pending  |-> IF IsHtmlWrite(tool_name, tool_input)
                       THEN MapPut(pending, tool_use_id, tool_input.file_path)
                       ELSE pending,
          decision |-> "continue"]

\* a hook that drops the entry only when the write succeeded
post_tool_hook_keeping(tr, queue, pending, tool_name, tool_result, tool_use_id, origin) ==
    LET has  == tool_name = "Write" /\ tool_use_id \in DOMAIN pending
        html == IF has /\ Truthy(tool_result)
                THEN <<[type |-> "html_created", tool_name |-> tool_name,
                        filename |-> PathName(pending[tool_use_id]),
                        url |-> [base |-> "http://localhost:8000/sandbox/",
                                 filename |-> PathName(pending[tool_use_id])],
                        origin |-> origin]>>
                ELSE << >>
    IN  [tracer   |-> log(tr, "hook_post_tool",
                          [tool_name |-> tool_name,
                           tool_use_id |-> tool_use_id,
                           has_result |-> tool_result # NoValue]),
         queue    |-> (queue \o html) \o
                      <<[type |-> "post_tool", tool_name |-> tool_name,
                         origin |-> origin]>>,
         pending  |-> IF has /\ Truthy(tool_result)
                      THEN MapDel(pending, tool_use_id) ELSE pending,
         decision |-> "continue"]

\* tool_result is NoValue when the hook input carries no result
post_tool_hook(tr, queue, pending, tool_name, tool_result, tool_use_id, origin) ==
    LET has  == tool_name = "Write" /\ tool_use_id \in DOMAIN pending
        html == IF has /\ Truthy(tool_result)
                THEN <<[type |-> "html_created", tool_name |-> tool_name,
                        filename |-> PathName(pending[tool_use_id]),
                        url |-> [base |-> "http://localhost:8000/sandbox/",
                                 filename |-> PathName(pending[tool_use_id])],
                        origin |-> origin]>>
                ELSE << >>
    IN  [tracer   |-> log(tr, "hook_post_tool",
                          [tool_name |-> tool_name,
                           tool_use_id |-> tool_use_id,
                           has_result |-> tool_result # NoValue]),
         queue    |-> (queue \o html) \o
                      <<[type |-> "post_tool", tool_name |-> tool_name,
                         origin |-> origin]>>,
         pending  |-> IF has THEN MapDel(pending, tool_use_id) ELSE pending,
         decision |-> "continue"]

(***************************************************************************)
(* Pieces of process_agent_stream.                                          *)
(***************************************************************************)
\* parallel_group_id None
NoGroup == << >>

\* a batch only from three tool uses on
ParallelGroupId_three(n_tool_blocks, fresh) ==
    IF n_tool_blocks > 2 THEN fresh ELSE NoGroup

\* is_parallel_batch / parallel_group_id of an assistant message; fresh is
\* the value uuid4 draws, never drawn before
ParallelGroupId(n_tool_blocks, fresh) ==
    IF n_tool_blocks > 1 THEN fresh ELSE NoGroup

\* a tool use of the running iteration counted backwards
DetectIteration_back(states, text, iteration) ==
    IF DOMAIN states = {} \/ text # << >>
    THEN [current_iteration |-> iteration + 1, current_text |-> << >>]
    ELSE [current_iteration |-> iteration - 1, current_text |-> text]

\* a new iteration with every tool use
DetectIteration_always(states, text, iteration) ==
    [current_iteration |-> iteration + 1, current_text |-> << >>]

\* a new iteration when tools are on record or text is held
DetectIteration_nonempty(states, text, iteration) ==
    IF DOMAIN states # {} \/ text # << >>
    THEN [current_iteration |-> iteration + 1, current_text |-> << >>]
    ELSE [current_iteration |-> iteration, current_text |-> text]

\* iteration detection on a tool-use block: <<current_iteration, current_text>>
DetectIteration(states, text, iteration) ==
    IF DOMAIN states = {} \/ text # << >>
    THEN [current_iteration |-> iteration + 1, current_text |-> << >>]
    ELSE [current_iteration |-> iteration, current_text |-> text]

\* current_depth after the result of a tool named tool_name
DepthAfterResult(tool_name, depth) ==
    IF tool_name = "Task" /\ depth > 0 THEN depth - 1 ELSE depth

\* the stop reason inferred from the completion message
InferStopReason(is_error, num_turns) ==
    IF is_error THEN "error"
    ELSE IF num_turns >= MAX_TURNS THEN "max_turns"
    ELSE "end_turn"

\* the end of the try block: trace, metrics, then the frame
OnStreamEnd(tr, m, tools_used, stop_reason) ==
    [tracer  |-> complete(log(tr, "complete", [tools_used |-> tools_used])),
     metrics |-> record_request_complete(m, TRUE),
     frames  |-> <<F_message_complete(tools_used, stop_reason)>>]

\* the handler without its yield
OnException_silent(tr, m, e) ==
    [tracer  |-> log_error(tr, e),
     metrics |-> record_request_complete(record_error(m, e), FALSE),
     frames  |-> << >>]

\* except Exception as e
OnException(tr, m, e) ==
    [tracer  |-> log_error(tr, e),
     metrics |-> record_request_complete(record_error(m, e), FALSE),
     frames  |-> <<F_error(e)>>]

(***************************************************************************)
(* What the runtime may send.                                               *)
(***************************************************************************)
\* The kind of conversation a turn holds decides the tool uses and the
\* texts the runtime may send in it.
Profiles == {"text", "files", "agents", "html"}
\* the conversations two concurrent turns hold
ConcProfiles == {"html"}

U_read == [name |-> "Read",
           input |-> ToolInput(AbsPath(SANDBOX_ROOT \o <<n_a_txt>>))]
U_write_etc == [name |-> "Write",
                input |-> ToolInput(AbsPath(<<n_etc, n_passwd>>))]
U_write_html == [name |-> "Write",
                 input |-> ToolInput(AbsPath(SANDBOX_ROOT \o <<n_p_html>>))]
U_write_etc_html == [name |-> "Write",
                     input |-> ToolInput(AbsPath(<<n_etc, n_P_HTML>>))]
U_task == [name |-> "Task", input |-> ToolInput(EmptyPath)]

ToolUses(profile) ==
    CASE profile = "files"  -> {U_read, U_write_etc}
      [] profile = "agents" -> {U_task, U_read}
      [] profile = "html"   -> {U_write_html, U_write_etc_html}
      [] OTHER -> {}

\* a run of five replacement characters: one more than a single match of
\* the pattern \ufffd{1,4} covers
LongRun == <<FFFD, FFFD, FFFD, FFFD, FFFD>>

Texts(profile) ==
    IF profile = "text"
    THEN {<<"a">>, <<"a", "b">>, <<"a", FFFD, "b", FFFD>>, LongRun \o <<"b">>}
    ELSE {<<"a">>}

\* only a text conversation is modelled with a connection that fails
\* and is retried
MayRetry(profile) == profile = "text"

TextBlocks(profile) == {[kind |-> "text", text |-> x] : x \in Texts(profile)}
ToolUseBlocks(profile) ==
    {[kind |-> "tool_use", use |-> u] : u \in ToolUses(profile)}

\* the content of an assistant message, before the runtime numbers its
\* tool uses
ThinkingBlocks(profile) ==
    IF profile = "text"
    THEN {[kind |-> "thinking", thinking |-> x] :
             x \in {<<"a">>, <<FFFD>>, <<"a">> \o LongRun \o <<"b">>}}
    ELSE {}

Contents(profile) ==
    {<<b>> : b \in TextBlocks(profile) \cup ToolUseBlocks(profile)
                  \cup ThinkingBlocks(profile)}
    \cup {<<a, b>> : a \in ThinkingBlocks(profile), b \in TextBlocks(profile)}
    \cup {<<a, b>> : a \in TextBlocks(profile),
                     b \in IF profile = "files"
                           THEN ToolUseBlocks(profile) ELSE {}}
    \cup {<<a, b>> : a \in ToolUseBlocks(profile),
                     b \in IF profile \in {"files", "agents"}
                           THEN ToolUseBlocks(profile) ELSE {}}
    \cup {<<a, x, b>> : a \in ToolUseBlocks(profile), x \in TextBlocks(profile),
                        b \in IF profile = "files"
                              THEN ToolUseBlocks(profile) ELSE {}}

IsToolUse(b) == b.kind = "tool_use"
NumToolUses(content) == Cardinality({i \in DOMAIN content : IsToolUse(content[i])})
\* how many tool uses precede position i
ToolsBefore(content, i) ==
    Cardinality({j \in 1..(i - 1) : IsToolUse(content[j])})

\* usage of the completion message; present is FALSE for None
Usage == [present |-> TRUE, input_tokens |-> 3, output_tokens |-> 2]
NoUsage == [present |-> FALSE, input_tokens |-> 0, output_tokens |-> 0]

SuccessMsgs(profile) ==
    {[subtype |-> "success", result |-> << >>, usage |-> Usage,
      is_error |-> FALSE, num_turns |-> 1]}
    \cup
    IF profile = "text"
    THEN {[subtype |-> "success", result |-> << >>, usage |-> NoUsage,
           is_error |-> TRUE, num_turns |-> 1],
          [subtype |-> "success", result |-> <<"a", "b">>, usage |-> Usage,
           is_error |-> FALSE, num_turns |-> MAX_TURNS],
          [subtype |-> "success", result |-> <<"a">> \o LongRun \o <<"b">>,
           usage |-> Usage, is_error |-> FALSE, num_turns |-> 1]}
    ELSE {}

\* the completion messages: the runtime ends the stream with a result
\* message whose subtype is success or, when the turn ran out of turns,
\* error_max_turns; the latter has is_error set and no content
ResultMsgs(profile) ==
    SuccessMsgs(profile)
    \cup
    IF profile = "text"
    THEN {[subtype |-> "error_max_turns", content |-> << >>,
           result |-> << >>, usage |-> Usage, is_error |-> TRUE,
           num_turns |-> MAX_TURNS]}
    ELSE {}

\* what a tool hands to the PostToolUse hook: a result, or none when it
\* failed; only the file writes of the html conversation are modelled failing
Outcomes(profile) == IF profile = "html" THEN {NoValue, "ok"} ELSE {"ok"}

(***************************************************************************)
(* Initial state: no turn has started.                                      *)
(***************************************************************************)
NewLocals ==
    [tools_used |-> {}, stop_reason |-> NoValue,
     first_token_recorded |-> FALSE, retry_count |-> 0,
     content |-> << >>, parallel_group_id |-> NoGroup,
     is_parallel_batch |-> FALSE, uuids |-> 0,
     total_tokens |-> 0,
     \* the calls of query(...) made so far (kept for the properties, the
     \* code does not count them)
     attempts |-> 0]

NewRuntime(profile, msgs, tools) ==
    [profile |-> profile, started |-> FALSE, ended |-> FALSE, msgs_left |-> msgs,
     tools_left |-> tools, next_id |-> 1, msgno |-> 0, tools |-> EmptyMap]

\* no call of the sandbox check under observation
NoProbe == [tool_name |-> "", tool_input |-> ToolInput(EmptyPath),
            returned |-> FALSE, result |-> Allow]

InitWith(profiles, msgs, tools) ==
    /\ probe = NoProbe
    /\ guard = NewGuard
    /\ clock = 0
    /\ pc = [t \in Turns |-> "idle"]
    /\ out = [t \in Turns |-> << >>]
    /\ current_text = [t \in Turns |-> << >>]
    /\ tool_states = [t \in Turns |-> EmptyMap]
    /\ current_iteration = [t \in Turns |-> 0]
    /\ current_depth = [t \in Turns |-> 0]
    /\ xl = [t \in Turns |-> NewLocals]
    /\ hook_events_queue = [t \in Turns |-> << >>]
    /\ pending_html_files = [t \in Turns |-> EmptyMap]
    /\ tracer = [t \in Turns |-> NewTraceLogger]
    /\ metrics_collector = ResetMetrics
    /\ inbox = [t \in Turns |-> << >>]
    /\ \E profile \in profiles :
           rt = [t \in Turns |-> NewRuntime(profile, msgs, tools)]

Init == InitWith(Profiles, MaxMsgs, MaxTools)

Emit(t, frames) == out' = [out EXCEPT ![t] = @ \o frames]

(***************************************************************************)
(* process_agent_stream, one action per message and per content block.      *)
(* The yields inside the handling of one block are taken together: a hook   *)
(* callback that runs during them leaves the frames as one that ran just    *)
(* before or just after the block.                                          *)
(***************************************************************************)
\* from the call to the first yield (session_config)
Start(t) ==
    /\ pc[t] = "idle"
    /\ tracer' = [tracer EXCEPT ![t] = log(NewTraceLogger, "request", NoData)]
    /\ metrics_collector' = record_request_start(metrics_collector)
    /\ Emit(t, <<F_session_config>>)
    /\ pc' = [pc EXCEPT ![t] = "config"]
    /\ UNCHANGED <<probe, guard, clock,
                   current_text, tool_states, current_iteration,
                   current_depth, xl, hook_events_queue, pending_html_files,
                   inbox, rt>>

\* into the try block: the turn's own queue and pending map, the options
Configure(t) ==
    /\ pc[t] = "config"
    /\ hook_events_queue' = [hook_events_queue EXCEPT ![t] = << >>]
    /\ pending_html_files' = [pending_html_files EXCEPT ![t] = EmptyMap]
    /\ tracer' = [tracer EXCEPT ![t] = log(@, "config", NoData)]
    /\ xl' = [xl EXCEPT ![t].retry_count = 0]
    /\ pc' = [pc EXCEPT ![t] = "open"]
    /\ UNCHANGED <<probe, guard, clock,
                   out, current_text, tool_states, current_iteration,
                   current_depth, metrics_collector, inbox, rt>>

\* the exception handler of the try block, reached with exception e
Fail(t, e) ==
    LET h == OnException(tracer[t], metrics_collector, e) IN
    /\ tracer' = [tracer EXCEPT ![t] = h.tracer]
    /\ metrics_collector' = h.metrics
    /\ Emit(t, h.frames)
    /\ pc' = [pc EXCEPT ![t] = "done"]

\* min(INITIAL_RETRY_DELAY * 2 ** (retry_count - 1), MAX_RETRY_DELAY), seconds
RetryDelay(retry_count) ==
    LET d == INITIAL_RETRY_DELAY * 2 ^ (retry_count - 1) IN
    IF d < MAX_RETRY_DELAY THEN d ELSE MAX_RETRY_DELAY

\* query(...) returns the stream
OpenOk(t) ==
    /\ pc[t] = "open"
    /\ xl[t].retry_count <= MAX_RETRIES
    /\ pc' = [pc EXCEPT ![t] = "stream"]
    /\ rt' = [rt EXCEPT ![t].started = TRUE]
    /\ inbox' = [inbox EXCEPT ![t] = <<[subtype |-> "init"]>>]
    /\ xl' = [xl EXCEPT ![t].attempts = @ + 1]
    /\ UNCHANGED <<probe, guard, clock,
                   out, current_text, tool_states, current_iteration,
                   current_depth, hook_events_queue, pending_html_files,
                   tracer, metrics_collector>>

\* a retry loop that gives up one failure later
OpenRetryable_extra(t, e) ==
    /\ pc[t] = "open"
    /\ e \in RETRYABLE_ERRORS
    /\ MayRetry(rt[t].profile)
    /\ LET n == xl[t].retry_count + 1 IN
       /\ xl' = [xl EXCEPT ![t].retry_count = n, ![t].attempts = @ + 1]
       /\ IF n <= MAX_RETRIES + 1
          THEN /\ tracer' = [tracer EXCEPT ![t] =
                                log(@, "retry", [attempt |-> n,
                                                 max_retries |-> MAX_RETRIES,
                                                 delay_seconds |-> RetryDelay(n)])]
               /\ Emit(t, <<F_retry_notice(n, MAX_RETRIES, RetryDelay(n))>>)
               /\ UNCHANGED <<pc, metrics_collector>>
          ELSE Fail(t, e)
    /\ UNCHANGED <<probe, guard, clock,
                   current_text, tool_states, current_iteration,
                   current_depth, hook_events_queue, pending_html_files,
                   inbox, rt>>

\* query(...) raises one of RETRYABLE_ERRORS
OpenRetryable(t, e) ==
    /\ pc[t] = "open"
    /\ e \in RETRYABLE_ERRORS
    /\ MayRetry(rt[t].profile)
    /\ LET n == xl[t].retry_count + 1 IN
       /\ xl' = [xl EXCEPT ![t].retry_count = n, ![t].attempts = @ + 1]
       /\ IF n <= MAX_RETRIES
          THEN /\ tracer' = [tracer EXCEPT ![t] =
                                log(@, "retry", [attempt |-> n,
                                                 max_retries |-> MAX_RETRIES,
                                                 delay_seconds |-> RetryDelay(n)])]
               /\ Emit(t, <<F_retry_notice(n, MAX_RETRIES, RetryDelay(n))>>)
               /\ UNCHANGED <<pc, metrics_collector>>
          ELSE Fail(t, e)
    /\ UNCHANGED <<probe, guard, clock,
                   current_text, tool_states, current_iteration,
                   current_depth, hook_events_queue, pending_html_files,
                   inbox, rt>>

\* an exception that is not retried: raised while the options are built, by
\* query(...), by the stream or while a message is handled
Raise(t, e) ==
    /\ pc[t] \in {"config", "open", "stream"}
    \* outside the retry loop an error of a retryable kind is not retried
    /\ e \notin RETRYABLE_ERRORS \/ (pc[t] # "open" /\ MayRetry(rt[t].profile))
    /\ Fail(t, e)
    /\ xl' = IF pc[t] = "open" THEN [xl EXCEPT ![t].attempts = @ + 1] ELSE xl
    /\ UNCHANGED <<probe, guard, clock,
                   current_text, tool_states, current_iteration,
                   current_depth, hook_events_queue, pending_html_files,
                   inbox, rt>>

\* async for msg in stream: the next message, up to its first block
NextMessage(t) ==
    /\ pc[t] = "stream"
    /\ xl[t].content = << >>
    /\ inbox[t] # << >>
    /\ LET msg == Head(inbox[t])
           tr0 == log(tracer[t], "raw_message", [subtype |-> msg.subtype])
       IN
       /\ inbox' = [inbox EXCEPT ![t] = Tail(@)]
       /\ IF \/ msg.subtype = "init"
             \* neither branch takes a message of another subtype that has
             \* no content
             \/ (msg.subtype # "success" /\ msg.content = << >>)
          THEN /\ tracer' = [tracer EXCEPT ![t] = tr0]
               /\ UNCHANGED <<out, current_text, xl, metrics_collector>>
          ELSE IF msg.subtype = "success"
          THEN LET raw   == IF msg.result # << >>
                               /\ msg.result # current_text[t]
                            THEN sanitize_utf8_text(
                                     DropFirst(msg.result, Len(current_text[t])))
                            ELSE << >>
                   tr1   == IF raw # << >>
                            THEN log(tr0, "text_delta", [delta |-> raw])
                            ELSE tr0
                   used  == msg.usage.input_tokens + msg.usage.output_tokens
               IN
               /\ current_text' = [current_text EXCEPT ![t] =
                                      IF raw # << >> THEN msg.result ELSE @]
               /\ xl' = [xl EXCEPT
                           ![t].stop_reason =
                               InferStopReason(msg.is_error, msg.num_turns),
                           ![t].total_tokens =
                               IF msg.usage.present THEN used ELSE @]
               /\ metrics_collector' =
                      IF msg.usage.present
                      THEN record_tokens(metrics_collector,
                                         msg.usage.input_tokens,
                                         msg.usage.output_tokens)
                      ELSE metrics_collector
               /\ tracer' = [tracer EXCEPT ![t] =
                                IF msg.usage.present
                                THEN log(tr1, "usage", msg.usage) ELSE tr1]
               /\ Emit(t, (IF raw # << >> THEN <<F_text_delta(raw)>> ELSE << >>)
                          \o (IF msg.usage.present
                              THEN <<F_cost_update(msg.usage)>> ELSE << >>))
          ELSE \* a message with a content list
               /\ tracer' = [tracer EXCEPT ![t] = tr0]
               /\ xl' = [xl EXCEPT
                           ![t].content = msg.content,
                           ![t].is_parallel_batch = NumToolUses(msg.content) > 1,
                           ![t].parallel_group_id =
                               ParallelGroupId(NumToolUses(msg.content),
                                               <<t, xl[t].uuids + 1>>),
                           ![t].uuids = IF NumToolUses(msg.content) > 1
                                        THEN @ + 1 ELSE @]
               /\ UNCHANGED <<out, current_text, metrics_collector>>
    /\ UNCHANGED <<probe, guard, clock,
                   pc, tool_states, current_iteration, current_depth,
                   hook_events_queue, pending_html_files, rt>>

Block(t) == Head(xl[t].content)

\* a thinking block
ThinkingBlock(t) ==
    /\ pc[t] = "stream"
    /\ xl[t].content # << >>
    /\ Block(t).kind = "thinking"
    /\ LET thinking_text == sanitize_utf8_text(Block(t).thinking) IN
       IF thinking_text # << >>
       THEN /\ tracer' = [tracer EXCEPT ![t] =
                             log(@, "thinking", [thinking |-> thinking_text,
                                                 length |-> Len(thinking_text)])]
            /\ Emit(t, <<F_thinking_delta(thinking_text)>>)
       ELSE UNCHANGED <<tracer, out>>
    /\ xl' = [xl EXCEPT ![t].content = Tail(@)]
    /\ UNCHANGED <<probe, guard, clock,
                   pc, current_text, tool_states, current_iteration,
                   current_depth, hook_events_queue, pending_html_files,
                   metrics_collector, inbox, rt>>

TextBlock(t) ==
    /\ pc[t] = "stream"
    /\ xl[t].content # << >>
    /\ Block(t).kind = "text"
    /\ LET text  == Block(t).text
           fresh == text # << >> /\ text # current_text[t]
           delta == IF fresh
                    THEN sanitize_utf8_text(DropFirst(text, Len(current_text[t])))
                    ELSE << >>
       IN
       /\ current_text' = [current_text EXCEPT ![t] =
                              IF delta # << >> THEN text ELSE @]
       /\ tracer' = [tracer EXCEPT ![t] =
                        IF delta # << >>
                        THEN log(@, "text_delta", [delta |-> delta]) ELSE @]
       /\ Emit(t, IF delta # << >> THEN <<F_text_delta(delta)>> ELSE << >>)
       /\ metrics_collector' =
              IF fresh /\ ~ xl[t].first_token_recorded
              THEN record_first_token(metrics_collector)
              ELSE metrics_collector
       /\ xl' = [xl EXCEPT ![t].content = Tail(@),
                           ![t].first_token_recorded = @ \/ fresh]
    /\ UNCHANGED <<probe, guard, clock,
                   pc, tool_states, current_iteration, current_depth,
                   hook_events_queue, pending_html_files, inbox, rt>>

ToolUseBlock(t) ==
    /\ pc[t] = "stream"
    /\ xl[t].content # << >>
    /\ Block(t).kind = "tool_use"
    /\ LET tool_id   == Block(t).id
           tool_name == Block(t).name
           it  == DetectIteration(tool_states[t], current_text[t],
                                  current_iteration[t])
           q   == HookStateOf(t)
       IN
       /\ current_iteration' = [current_iteration EXCEPT ![t] = it.current_iteration]
       /\ current_text' = [current_text EXCEPT ![t] = it.current_text]
       /\ tool_states' = [tool_states EXCEPT ![t] =
              MapPut(@, tool_id,
                     [name |-> tool_name, input |-> Block(t).input,
                      status |-> "running",
                      iteration |-> it.current_iteration,
                      parallel_group |-> xl[t].parallel_group_id,
                      is_parallel |-> xl[t].is_parallel_batch])]
       /\ xl' = [xl EXCEPT ![t].content = Tail(@),
                           ![t].tools_used = @ \cup {tool_name}]
       /\ metrics_collector' = record_tool_call(metrics_collector)
       /\ tracer' = [tracer EXCEPT ![t] =
              log(@, "tool_start",
                  [tool_id |-> tool_id, name |-> tool_name,
                   iteration |-> it.current_iteration,
                   parallel_group |-> xl[t].parallel_group_id])]
       /\ IF tool_name = "Task"
          THEN /\ current_depth' = [current_depth EXCEPT ![t] = @ + 1]
               /\ Emit(t, <<F_agent_spawn(tool_id, it.current_iteration,
                                          current_depth[t] + 1)>>)
               /\ UNCHANGED hook_events_queue
          ELSE /\ Emit(t, DrainHookEvents(hook_events_queue[q])
                          \o <<F_tool_start(tool_id, tool_name,
                                            it.current_iteration)>>)
               /\ hook_events_queue' = [hook_events_queue EXCEPT ![q] = << >>]
               /\ UNCHANGED current_depth
    /\ UNCHANGED <<probe, guard, clock,
                   pc, pending_html_files, inbox, rt>>

ToolResultBlock(t) ==
    /\ pc[t] = "stream"
    /\ xl[t].content # << >>
    /\ Block(t).kind = "tool_result"
    /\ LET tool_id   == Block(t).tool_use_id
           status    == IF Block(t).is_error THEN "error" ELSE "completed"
           known     == tool_id \in DOMAIN tool_states[t]
           tool_name == IF known THEN tool_states[t][tool_id].name ELSE ""
           closing   == tool_name = "Task" /\ current_depth[t] > 0
           depth     == DepthAfterResult(tool_name, current_depth[t])
           tr1 == log(tracer[t], "tool_result",
                      [tool_id |-> tool_id, tool_name |-> tool_name,
                       status |-> status, is_error |-> Block(t).is_error])
       IN
       /\ Emit(t, <<F_tool_result(tool_id, status)>>
                  \o (IF closing THEN <<F_agent_complete(tool_id)>> ELSE << >>))
       /\ current_depth' = [current_depth EXCEPT ![t] = depth]
       /\ tracer' = [tracer EXCEPT ![t] =
              IF closing
              THEN log(tr1, "agent_complete",
                       [agent_id |-> tool_id, new_depth |-> depth])
              ELSE tr1]
    /\ xl' = [xl EXCEPT ![t].content = Tail(@)]
    /\ UNCHANGED <<probe, guard, clock,
                   pc, current_text, tool_states, current_iteration,
                   hook_events_queue, pending_html_files, metrics_collector,
                   inbox, rt>>

\* the stream is exhausted: the end of the try block, the message_complete
\* yield and, after it, the return (the session is stored on the way)
EndOfStream(t) ==
    /\ pc[t] = "stream"
    /\ xl[t].content = << >>
    /\ inbox[t] = << >>
    /\ rt[t].ended
    /\ LET h == OnStreamEnd(tracer[t], metrics_collector, xl[t].tools_used,
                            xl[t].stop_reason) IN
       /\ tracer' = [tracer EXCEPT ![t] = h.tracer]
       /\ metrics_collector' = h.metrics
       /\ Emit(t, h.frames)
    /\ pc' = [pc EXCEPT ![t] = "done"]
    /\ UNCHANGED <<probe, guard, clock,
                   current_text, tool_states, current_iteration,
                   current_depth, xl, hook_events_queue, pending_html_files,
                   inbox, rt>>

\* the client goes away: the generator is closed where it is suspended
\* (GeneratorExit, or CancelledError while it awaits); neither is an
\* Exception, so no handler of process_agent_stream runs
Disconnect(t) ==
    /\ \/ pc[t] \in {"config", "stream"}
       \/ pc[t] = "open" /\ xl[t].retry_count > 0
    /\ pc' = [pc EXCEPT ![t] = "closed"]
    /\ UNCHANGED <<probe, guard, clock,
                   out, current_text, tool_states, current_iteration,
                   current_depth, xl, hook_events_queue, pending_html_files,
                   tracer, metrics_collector, inbox, rt>>

(***************************************************************************)
(* The agent runtime.  Tool use ids are unique; a tool use is announced in  *)
(* an assistant message, then its PreToolUse hooks run, then (unless        *)
(* blocked) it executes, its PostToolUse hook runs and its result is sent.  *)
(* The hooks run as callbacks of their own: before or after the translator  *)
(* has handled the announcing block.                                        *)
(***************************************************************************)
Send(t, msg) == inbox' = [inbox EXCEPT ![t] = Append(@, msg)]

\* the content with the i-th tool use given the runtime's next id
Numbered(t, content) ==
    [i \in DOMAIN content |->
        IF IsToolUse(content[i])
        THEN [kind  |-> "tool_use",
              id    |-> <<t, rt[t].next_id + ToolsBefore(content, i)>>,
              name  |-> content[i].use.name,
              input |-> content[i].use.input]
        ELSE content[i]]

Announced(t, content) ==
    LET c == Numbered(t, content)
        ids == {c[i].id : i \in {j \in DOMAIN c : IsToolUse(c[j])}}
        blockOf(id) == CHOOSE i \in DOMAIN c : IsToolUse(c[i]) /\ c[i].id = id
    IN  [id \in DOMAIN rt[t].tools \cup ids |->
            IF id \in ids
            THEN [name |-> c[blockOf(id)].name, input |-> c[blockOf(id)].input,
                  msg |-> rt[t].msgno + 1, phase |-> "announced",
                  decision |-> NoValue, tool_result |-> NoValue]
            ELSE rt[t].tools[id]]

RtAssistant(t, content) ==
    /\ pc[t] = "stream"
    /\ rt[t].started /\ ~ rt[t].ended
    /\ rt[t].msgs_left > 0
    /\ NumToolUses(content) <= rt[t].tools_left
    \* the model continues only when it has the results of its tool uses;
    \* a sub-agent's messages arrive while its Task is open
    /\ \A id \in DOMAIN rt[t].tools :
           \/ rt[t].tools[id].phase \in {"blocked", "resulted"}
           \/ rt[t].tools[id].name = "Task"
    /\ Len(inbox[t]) < MaxInbox
    /\ Send(t, [subtype |-> "None", content |-> Numbered(t, content)])
    /\ rt' = [rt EXCEPT ![t].msgs_left = @ - 1,
                        ![t].tools_left = @ - NumToolUses(content),
                        ![t].next_id = @ + NumToolUses(content),
                        ![t].msgno = @ + 1,
                        ![t].tools = Announced(t, content)]
    /\ UNCHANGED <<probe, guard, clock,
                   pc, out, current_text, tool_states, current_iteration,
                   current_depth, xl, hook_events_queue, pending_html_files,
                   tracer, metrics_collector>>

\* the PreToolUse chain for one tool use: keep_stream_open_hook, then
\* pre_tool_hook
PreToolUse(t, id) ==
    /\ pc[t] = "stream"
    /\ id \in DOMAIN rt[t].tools
    /\ rt[t].tools[id].phase = "announced"
    \* in the order of the announcements
    /\ \A other \in DOMAIN rt[t].tools :
           other[2] < id[2] => rt[t].tools[other].phase # "announced"
    /\ LET q == HookStateOf(t)
           h == pre_tool_hook(keep_stream_open_hook(tracer[t], id),
                              hook_events_queue[q], pending_html_files[q],
                              rt[t].tools[id].name, rt[t].tools[id].input,
                              id, t)
       IN
       /\ tracer' = [tracer EXCEPT ![t] = h.tracer]
       /\ hook_events_queue' = [hook_events_queue EXCEPT ![q] = h.queue]
       /\ pending_html_files' = [pending_html_files EXCEPT ![q] = h.pending]
       /\ rt' = [rt EXCEPT ![t].tools[id].phase =
                    IF h.decision = "block" THEN "blocked" ELSE "allowed",
                           ![t].tools[id].decision = h.decision]
    /\ UNCHANGED <<probe, guard, clock,
                   pc, out, current_text, tool_states, current_iteration,
                   current_depth, xl, metrics_collector, inbox>>

\* the tool has run; the PostToolUse hook is called with its result, or
\* with none when it failed
PostToolUse(t, id, tool_result) ==
    /\ pc[t] = "stream"
    /\ id \in DOMAIN rt[t].tools
    /\ rt[t].tools[id].phase = "allowed"
    /\ LET q == HookStateOf(t)
           h == post_tool_hook(tracer[t], hook_events_queue[q],
                               pending_html_files[q], rt[t].tools[id].name,
                               tool_result, id, t)
       IN
       /\ tracer' = [tracer EXCEPT ![t] = h.tracer]
       /\ hook_events_queue' = [hook_events_queue EXCEPT ![q] = h.queue]
       /\ pending_html_files' = [pending_html_files EXCEPT ![q] = h.pending]
    /\ rt' = [rt EXCEPT ![t].tools[id].phase = "posted",
                        ![t].tools[id].tool_result = tool_result]
    /\ UNCHANGED <<probe, guard, clock,
                   pc, out, current_text, tool_states, current_iteration,
                   current_depth, xl, metrics_collector, inbox>>

\* a result that may reach the model after it has continued
RtResult_late(t, id) ==
    /\ pc[t] = "stream"
    /\ id \in DOMAIN rt[t].tools
    /\ rt[t].tools[id].phase \in {"posted", "blocked"}
    /\ ~ rt[t].ended
    /\ Len(inbox[t]) < MaxInbox
    /\ Send(t, [subtype |-> NoValue,
                content |-> <<[kind |-> "tool_result", tool_use_id |-> id,
                               is_error |->
                                  \/ rt[t].tools[id].phase = "blocked"
                                  \/ rt[t].tools[id].tool_result = NoValue]>>])
    /\ rt' = [rt EXCEPT ![t].tools[id].phase = "resulted"]
    /\ UNCHANGED <<probe, guard, clock,
                   pc, out, current_text, tool_states, current_iteration,
                   current_depth, xl, hook_events_queue, pending_html_files,
                   tracer, metrics_collector>>

\* the tool-result block of an executed tool use, or the error result the
\* runtime may send for a blocked one
RtResult(t, id) ==
    /\ pc[t] = "stream"
    /\ id \in DOMAIN rt[t].tools
    /\ rt[t].tools[id].phase \in {"posted", "blocked"}
    \* a result goes to the model before the model continues
    /\ rt[t].tools[id].msg = rt[t].msgno \/ rt[t].tools[id].name = "Task"
    /\ ~ rt[t].ended
    /\ Len(inbox[t]) < MaxInbox
    /\ Send(t, [subtype |-> NoValue,
                content |-> <<[kind |-> "tool_result", tool_use_id |-> id,
                               is_error |->
                                  \/ rt[t].tools[id].phase = "blocked"
                                  \/ rt[t].tools[id].tool_result = NoValue]>>])
    /\ rt' = [rt EXCEPT ![t].tools[id].phase = "resulted"]
    /\ UNCHANGED <<probe, guard, clock,
                   pc, out, current_text, tool_states, current_iteration,
                   current_depth, xl, hook_events_queue, pending_html_files,
                   tracer, metrics_collector>>

\* the completion message, once no tool use is outstanding; the stream
\* ends after it
RtSuccess(t, msg) ==
    /\ pc[t] = "stream"
    /\ rt[t].started /\ ~ rt[t].ended
    /\ \A id \in DOMAIN rt[t].tools :
           rt[t].tools[id].phase \in {"blocked", "resulted"}
    /\ Len(inbox[t]) < MaxInbox
    /\ Send(t, msg)
    /\ rt' = [rt EXCEPT ![t].ended = TRUE]
    /\ UNCHANGED <<probe, guard, clock,
                   pc, out, current_text, tool_states, current_iteration,
                   current_depth, xl, hook_events_queue, pending_html_files,
                   tracer, metrics_collector>>

(***************************************************************************)
(* Specifications.                                                          *)
(***************************************************************************)
ToolIds(t) == DOMAIN rt[t].tools

\* the steps of a turn whose connection is not retried and whose messages
\* hold no thinking blocks
CoreStep(t) ==
    \/ Start(t)
    \/ Configure(t)
    \/ OpenOk(t)
    \/ \E e \in ErrorKinds : Raise(t, e)
    \/ NextMessage(t)
    \/ TextBlock(t)
    \/ ToolUseBlock(t)
    \/ ToolResultBlock(t)
    \/ EndOfStream(t)
    \/ \E content \in Contents(rt[t].profile) : RtAssistant(t, content)
    \/ \E id \in ToolIds(t) : PreToolUse(t, id)
    \/ \E id \in ToolIds(t), r \in Outcomes(rt[t].profile) : PostToolUse(t, id, r)
    \/ \E id \in ToolIds(t) : RtResult(t, id)
    \/ \E msg \in ResultMsgs(rt[t].profile) : RtSuccess(t, msg)

TurnStep(t) ==
    \/ CoreStep(t)
    \/ \E e \in ErrorKinds : OpenRetryable(t, e)
    \/ ThinkingBlock(t)

\* one turn
Next == TurnStep(1)

Spec == Init /\ [][Next]_vars

\* one turn whose client may go away
NextCancel == Next \/ Disconnect(1)

SpecCancel == InitWith(Profiles, CancelMsgs, CancelTools) /\ [][NextCancel]_vars

\* two turns at once, each with its own call of process_agent_stream; the
\* metrics collector is the one shared object
NextConc == \E t \in Turns : CoreStep(t)

SpecConc == InitWith(ConcProfiles, ConcMsgs, ConcTools) /\ [][NextConc]_vars

\* POST /api/metrics/reset
reset_metrics ==
    /\ metrics_collector' = ResetMetrics
    /\ UNCHANGED <<pc, out, current_text, tool_states, current_iteration,
                   current_depth, xl, hook_events_queue, pending_html_files,
                   tracer, inbox, rt, probe, guard, clock>>

\* two turns at once while the metrics may be reset
NextMetrics == NextConc \/ reset_metrics

SpecMetrics == InitWith(ConcProfiles, ConcMsgs, ConcTools) /\ [][NextMetrics]_vars

\* the sandbox check as a function: one call on arguments drawn from
\* Probes
Segments == {n_backend, n_sandbox, n_SANDBOX, n_etc, n_a_txt, n_dotdot, n_dot}

RECURSIVE SegSeqs(_)
SegSeqs(n) ==
    IF n = 0 THEN {<< >>}
    ELSE SegSeqs(n - 1) \cup
         {Append(q, x) : q \in {r \in SegSeqs(n - 1) : Len(r) = n - 1},
                         x \in Segments}

Paths == {[abs |-> a, segs |-> q] : a \in BOOLEAN, q \in SegSeqs(MaxPathLen)}

\* calls of the read-only tools: Read and Grep name a file_path, Glob a
\* path, and Glob and Grep may give a pattern
ReadNames == {n_a_txt,
              <<".", "e", "n", "v">>,
              <<".", "e", "n", "v", ".", "l", "o", "c", "a", "l">>,
              <<"c", "r", "e", "d", "e", "n", "t", "i", "a", "l", "s">>,
              <<"s", "e", "c", "r", "e", "t", "s">>,
              <<"p", "a", "s", "s", "w", "o", "r", "d">>,
              <<"t", "o", "k", "e", "n">>}
ReadPaths == {RelPath(<<n>>) : n \in ReadNames}
                 \cup {AbsPath(<<n_sandbox, n>>) : n \in ReadNames}
                 \cup {RelPath(<<<<"s", "e", "c", "r", "e", "t", "s">>, n_a_txt>>)}
ReadPatterns == {EmptyStr, <<"*", ".", "p", "y">>,
                 <<".", "e", "n", "v">>, <<"t", "o", "k", "e", "n", "*">>}

ReadProbes ==
    {[tool_name |-> "Read",
      tool_input |-> [file_path |-> f, path |-> EmptyPath, pattern |-> EmptyStr],
      returned |-> FALSE, result |-> Allow] : f \in ReadPaths}
    \cup {[tool_name |-> "Grep",
           tool_input |-> [file_path |-> f, path |-> EmptyPath, pattern |-> x],
           returned |-> FALSE, result |-> Allow] :
              f \in ReadPaths \cup {EmptyPath}, x \in ReadPatterns}
    \cup {[tool_name |-> "Glob",
           tool_input |-> [file_path |-> EmptyPath, path |-> f, pattern |-> x],
           returned |-> FALSE, result |-> Allow] :
              f \in ReadPaths \cup {EmptyPath}, x \in ReadPatterns}

\* Bash commands put to the sandbox check: plain ones, the two traversal
\* forms, paths inside and outside the sandbox, device paths, drive forms
BashCommands == {
    <<"l", "s">>,
    <<"c", "d", " ", ".", ".">>,
    <<"c", "a", "t", " ", ".", ".", "/", "x">>,
    <<"c", "a", "t", " ", ".", ".", "\\", "x">>,
    <<"c", "a", "t", " ", "/", "e", "t", "c", "/", "p", "a", "s", "s", "w", "d">>,
    <<"c", "a", "t", " ", "/", "b", "a", "c", "k", "e", "n", "d", "/", "s", "a", "n", "d", "b", "o", "x", "/", "a", ".", "t", "x", "t">>,
    <<"c", "a", "t", " ", "/", "d", "e", "v", "/", "n", "u", "l", "l">>,
    <<"c", "a", "t", " ", "/", "b", "a", "c", "k", "e", "n", "d", "/", "s", "a", "n", "d", "b", "o", "x", "/", "a", "/", "b">>,
    <<"c", "a", "t", " ", "'", "/", "e", "t", "c", "/", "x", "'">>,
    <<"l", "s", " ", "C", ":", "/", "x">>,
    <<"l", "s", " ", "/", "c", "/", "x">>,
    <<"l", "s", " ", "/", "B", "/", "x">>,
    <<"c", "a", "t", " ", "/", "1", "x">>,
    <<"c", "a", "t", " ", ".", "/", "x">>,
    <<"c", "a", "t", " ", "a", "/", "e", "t", "c">>,
    <<"c", "a", "t", " ", "/", "b", "a", "c", "k", "e", "n", "d", "/", "s", "a", "n", "d", "b", "o", "x", "/", "a", ".", "t", "x", "t", " ", "/", "e", "t", "c", "/", "x">>,
    <<"e", "c", "h", "o", " ", "h", "i", " ", ">", "/", "b", "a", "c", "k", "e", "n", "d", "/", "s", "a", "n", "d", "b", "o", "x", "/", "o">>}

BashProbes ==
    {[tool_name |-> "Bash", tool_input |-> [command |-> c],
      returned |-> FALSE, result |-> Allow] : c \in BashCommands}

Probes == {[tool_name |-> n, tool_input |-> ToolInput(path),
            returned |-> FALSE, result |-> Allow] :
              n \in {"Write", "Edit", "Read", "Task"}, path \in Paths}
          \cup ReadProbes \cup BashProbes

InitSandbox ==
    /\ \E start \in Probes : probe = start
    /\ guard = NewGuard
    /\ clock = 0
    /\ pc = [t \in Turns |-> "idle"]
    /\ out = [t \in Turns |-> << >>]
    /\ current_text = [t \in Turns |-> << >>]
    /\ tool_states = [t \in Turns |-> EmptyMap]
    /\ current_iteration = [t \in Turns |-> 0]
    /\ current_depth = [t \in Turns |-> 0]
    /\ xl = [t \in Turns |-> NewLocals]
    /\ hook_events_queue = [t \in Turns |-> << >>]
    /\ pending_html_files = [t \in Turns |-> EmptyMap]
    /\ tracer = [t \in Turns |-> NewTraceLogger]
    /\ metrics_collector = ResetMetrics
    /\ inbox = [t \in Turns |-> << >>]
    /\ rt = [t \in Turns |-> NewRuntime("text", 0, 0)]

\* the tool use under observation
ProbeId == <<1, 1>>

\* one tool use put to the sandbox: the check itself, the permission
\* callback and the pre-tool hook of turn 1, each with the same arguments
CheckTool ==
    /\ ~ probe.returned
    /\ LET h == pre_tool_hook(tracer[1], hook_events_queue[1],
                              pending_html_files[1], probe.tool_name,
                              probe.tool_input, ProbeId, 1)
       IN
       /\ probe' = [tool_name |-> probe.tool_name,
                    tool_input |-> probe.tool_input,
                    returned |-> TRUE,
                    result |-> sandbox_check_tool(probe.tool_name,
                                                  probe.tool_input),
                    permission |-> sandbox_can_use_tool(probe.tool_name,
                                                        probe.tool_input),
                    decision |-> h.decision]
       /\ tracer' = [tracer EXCEPT ![1] = h.tracer]
       /\ hook_events_queue' = [hook_events_queue EXCEPT ![1] = h.queue]
       /\ pending_html_files' = [pending_html_files EXCEPT ![1] = h.pending]
    /\ UNCHANGED <<pc, out, current_text, tool_states, current_iteration,
                   current_depth, xl, metrics_collector, inbox, rt, guard,
                   clock>>

SpecSandbox == InitSandbox /\ [][CheckTool]_vars

\* the guard of the sandboxed example agent: operations arrive at its
\* PreToolUse hook while time passes
DangerousSamples == {
    <<"r", "m", " ", "-", "r", "f", " ", "x">>,
    <<"r", "m", " ", "-", "r", " ", "/">>,
    <<"r", "m", "d", "i", "r", " ", "/", "s">>,
    <<"d", "e", "l", " ", "/", "q", " ", "a">>,
    <<"f", "o", "r", "m", "a", "t", " ", "c">>,
    <<"m", "k", "f", "s", ".", "x">>,
    <<"d", "d", " ", "i", "f", "=", "a">>,
    <<"l", "s", " ", ">", " ", "/", "d", "e", "v", "/", "a">>,
    <<"s", "h", "u", "t", "d", "o", "w", "n">>,
    <<"r", "e", "b", "o", "o", "t">>,
    <<"h", "a", "l", "t">>,
    <<"i", "n", "i", "t", " ", "0">>,
    <<"c", "u", "r", "l", " ", "x", " ", "|", " ", "s", "h">>,
    <<"w", "g", "e", "t", " ", "x", "|", "b", "a", "s", "h">>,
    <<"e", "v", "a", "l", " ", "(", "a", ")">>,
    <<"e", "x", "e", "c", "(", "a", ")">>,
    <<"R", "M", " ", " ", "-", "R", "F", " ", "x">>,
    <<"R", "e", "B", "o", "o", "t">>}
HarmlessSamples == {
    <<"l", "s">>,
    <<"r", "m", " ", "a", ".", "t", "x", "t">>,
    <<"e", "c", "h", "o", " ", "h", "i">>}

ShellRequests(commands) ==
    {[tool_name |-> "Bash", tool_input |-> [command |-> c]] : c \in commands}

GuardRequests ==
    {[tool_name |-> n, tool_input |-> [file_path |-> f]] :
        n \in {"Read", "Edit"},
        f \in {RelPath(<<<<"a", ".", "t", "x", "t">>>>),
               RelPath(<<<<".", "e", "n", "v">>>>),
               RelPath(<<<<"s", "r", "c">>, <<"r", "u", "n", ".", "s", "h">>>>)}}
    \cup {[tool_name |-> "Glob", tool_input |-> [path |-> RelPath(<<<<"s", "r", "c">>>>),
                                                pattern |-> <<"*", ".", "p", "y">>]]}
    \cup {[tool_name |-> "Write", tool_input |-> [file_path |-> f, content |-> c]] :
        f \in {RelPath(<<<<"a", ".", "t", "x", "t">>>>),
               AbsPath(<<<<"e", "t", "c">>, <<"b", ".", "k", "e", "y">>>>)},
        c \in {<<"o", "k">>,
               <<"t", "o", "k", "e", "n", "=", "a", "b">>}}
    \cup ShellRequests({<<"l", "s">>, <<"r", "m", " ", "-", "r", "f", " ", "x">>,
                        <<"R", "M", " ", " ", "-", "R", "F", " ", "x">>})

NoGuardProbe == [tool_name |-> "", tool_input |-> [command |-> EmptyStr],
                 returned |-> FALSE, result |-> GuardAllow]

InitGuard ==
    /\ probe = NoGuardProbe
    /\ guard = NewGuard
    /\ clock = 0
    /\ pc = [t \in Turns |-> "idle"]
    /\ out = [t \in Turns |-> << >>]
    /\ current_text = [t \in Turns |-> << >>]
    /\ tool_states = [t \in Turns |-> EmptyMap]
    /\ current_iteration = [t \in Turns |-> 0]
    /\ current_depth = [t \in Turns |-> 0]
    /\ xl = [t \in Turns |-> NewLocals]
    /\ hook_events_queue = [t \in Turns |-> << >>]
    /\ pending_html_files = [t \in Turns |-> EmptyMap]
    /\ tracer = [t \in Turns |-> NewTraceLogger]
    /\ metrics_collector = ResetMetrics
    /\ inbox = [t \in Turns |-> << >>]
    /\ rt = [t \in Turns |-> NewRuntime("text", 0, 0)]

\* time passes
Tick ==
    /\ clock + TickSeconds <= MaxClock
    /\ clock' = clock + TickSeconds
    /\ UNCHANGED <<pc, out, current_text, tool_states, current_iteration,
                   current_depth, xl, hook_events_queue, pending_html_files,
                   tracer, metrics_collector, inbox, rt, probe, guard>>

\* security_hook asks the guard about an operation
CheckOperation(request) ==
    /\ LET r == check_operation(guard, clock, request.tool_name,
                                request.tool_input)
       IN  /\ guard' = r.guard
           /\ probe' = [tool_name |-> request.tool_name,
                        tool_input |-> request.tool_input,
                        returned |-> TRUE, result |-> r.result]
    /\ UNCHANGED <<pc, out, current_text, tool_states, current_iteration,
                   current_depth, xl, hook_events_queue, pending_html_files,
                   tracer, metrics_collector, inbox, rt, clock>>

NextGuard == Tick \/ \E request \in GuardRequests : CheckOperation(request)

SpecGuard == InitGuard /\ [][NextGuard]_vars

\* the same guard asked about shell commands only, one at least for every
\* pattern of dangerous_commands
NextShell ==
    \/ Tick
    \/ \E request \in ShellRequests(DangerousSamples \cup HarmlessSamples) :
           CheckOperation(request)

SpecShell == InitGuard /\ [][NextShell]_vars

(***************************************************************************)
(* Properties.  Frames are read off out[t], the persisted trace off          *)
(* tracer[t].file, the runtime's view of a tool use off rt[t].tools.        *)
(***************************************************************************)
FramesAt(t, types) == {i \in DOMAIN out[t] : out[t][i].type \in types}
Terminals(t) == FramesAt(t, {"message_complete", "error"})
Completed(t) == FramesAt(t, {"message_complete"}) # {}

C2_TraceFinalized ==
    \A i \in Terminals(1) :
        /\ tracer[1].file.written
        /\ tracer[1].file.metadata.status =
               IF out[1][i].type = "message_complete" THEN "completed"
               ELSE "error"

\* a turn with a tool result ended in message_complete
C2_Witness ==
    /\ Completed(1)
    /\ FramesAt(1, {"tool_result"}) # {}
    /\ tracer[1].file.written
    /\ tracer[1].file.metadata.status = "completed"

\* the tool uses the PreToolUse hook has blocked
Denied(t) == {id \in DOMAIN rt[t].tools : rt[t].tools[id].decision = "block"}

\* C3: a tool use denied by the sandbox policy has no tool_start and no
\* tool_result frame, and by the end of a completed turn it has a
\* hook_pre_tool frame with action block for its tool.
C3_DeniedToolFrames ==
    \A id \in Denied(1) :
        /\ \A i \in FramesAt(1, {"tool_start", "tool_result"}) :
               out[1][i].tool_id # id
        /\ Completed(1) =>
               \E i \in FramesAt(1, {"hook_pre_tool"}) :
                   /\ out[1][i].action = "block"
                   /\ out[1][i].tool_name = rt[1].tools[id].name

\* Where a walk along the segments ends, read from the last segment
\* backwards: skip counts the ".." segments still to be paid for.
RECURSIVE Climb(_, _, _)
Climb(segs, i, skip) ==
    IF i = 0 THEN << >>
    ELSE IF segs[i] = n_dotdot THEN Climb(segs, i - 1, skip + 1)
    ELSE IF segs[i] \in {n_dot, EmptyStr} THEN Climb(segs, i - 1, skip)
    ELSE IF skip > 0 THEN Climb(segs, i - 1, skip - 1)
    ELSE Append(Climb(segs, i - 1, 0), segs[i])

Target(p) ==
    LET full == (IF p.abs THEN << >> ELSE ServerCwd) \o p.segs IN
    Climb(full, Len(full), 0)

Under(root, loc) ==
    /\ Len(loc) >= Len(root)
    /\ \A i \in 1..Len(root) : loc[i] = root[i]

C5_StartResultPairing ==
    \A i \in FramesAt(1, {"tool_start"}) :
        LET results == {j \in FramesAt(1, {"tool_result"}) :
                           out[1][j].tool_id = out[1][i].tool_id}
            blocked == \E k \in FramesAt(1, {"hook_pre_tool"}) :
                           /\ k < i
                           /\ out[1][k].action = "block"
                           /\ out[1][k].tool_name = out[1][i].name
        IN  ~ blocked =>
                /\ Cardinality(results) <= 1
                /\ \A j \in results : j > i
                /\ Completed(1) => Cardinality(results) = 1

\* C6: with two turns running at once, every event in a turn's hook queue
\* and every hook frame on a turn's stream was queued by that turn's own
\* hooks, and every entry of a turn's pending-artifact map belongs to a
\* tool use of that turn.
C6_TurnIsolation ==
    \A t \in Turns :
        /\ \A i \in DOMAIN hook_events_queue[t] :
               hook_events_queue[t][i].origin = t
        /\ \A i \in FramesAt(t, {"hook_pre_tool", "hook_post_tool"}) :
               out[t][i].origin = t
        /\ \A id \in DOMAIN pending_html_files[t] : id[1] = t

\* both turns are streaming, one has sent a hook frame and holds a queued
\* event while the other holds a pending artifact
C6_Witness ==
    /\ pc[1] = "stream" /\ pc[2] = "stream"
    /\ FramesAt(1, {"hook_pre_tool"}) # {}
    /\ hook_events_queue[1] # << >>
    /\ DOMAIN pending_html_files[2] # {}

\* C7: when the client has gone away during a turn, the trace has status
\* completed or error and the metrics hold one completion for the turn.
C7_DisconnectFinalizes ==
    pc[1] = "closed" =>
        /\ tracer[1].metadata.status \in {"completed", "error"}
        /\ metrics_collector.requests.success
             + metrics_collector.requests.error = 1

\* the Task invocations open after the first n frames
OpenAgents(t, n) ==
    {out[t][i].agent_id : i \in {j \in FramesAt(t, {"agent_spawn"}) : j <= n}}
    \ {out[t][i].agent_id : i \in {j \in FramesAt(t, {"agent_complete"}) : j <= n}}

\* the last spawned of them
LastOpened(t, n) ==
    LET i == CHOOSE j \in FramesAt(t, {"agent_spawn"}) :
                 /\ j <= n
                 /\ out[t][j].agent_id \in OpenAgents(t, n)
                 /\ \A k \in FramesAt(t, {"agent_spawn"}) :
                        (k <= n /\ out[t][k].agent_id \in OpenAgents(t, n))
                            => k <= j
    IN  out[t][i].agent_id

\* C8: agent_spawn and agent_complete frames are properly nested (each
\* agent_complete closes the Task opened last among the open ones), the
\* depth of an agent_spawn is the number of Tasks open with it, and the
\* depth counter is never negative.
C8_AgentNesting ==
    /\ \A i \in FramesAt(1, {"agent_complete"}) :
           /\ OpenAgents(1, i - 1) # {}
           /\ out[1][i].agent_id = LastOpened(1, i - 1)
    /\ \A i \in FramesAt(1, {"agent_spawn"}) :
           out[1][i].depth = Cardinality(OpenAgents(1, i))
    /\ current_depth[1] >= 0

\* C9: the iteration of the tool_start and agent_spawn frames of a turn
\* never decreases along the stream.
C9_IterationMonotone ==
    \A i, j \in FramesAt(1, {"tool_start", "agent_spawn"}) :
        i < j => out[1][i].iteration <= out[1][j].iteration

\* a tool frame of iteration 1 followed by one of iteration 2
C9_Witness ==
    \E i, j \in FramesAt(1, {"tool_start", "agent_spawn"}) :
        /\ i < j
        /\ out[1][i].iteration = 1
        /\ out[1][j].iteration = 2

HasFFFD(text) == \E i \in 1..Len(text) : text[i] = FFFD

DeltaOf(frame) ==
    IF frame.type = "thinking_delta" THEN frame.thinking ELSE frame.text

C11_NoReplacementChar ==
    \A t \in Turns : \A i \in 1..Len(out[t]) :
        out[t][i].type \in {"text_delta", "thinking_delta"}
            => ~HasFFFD(DeltaOf(out[t][i]))

\* a text whose delta began with a run of five replacement characters was
\* sent as a text_delta
C11_Witness ==
    /\ current_text[1] = LongRun \o <<"b">>
    /\ \E i \in 1..Len(out[1]) :
           /\ out[1][i].type = "text_delta"
           /\ ~out[1][i].notice
           /\ out[1][i].text = <<"b">>

(***************************************************************************)
(* C12: in each of the three windows of the guard (all operations, Write   *)
(* operations, Bash operations), when the operations recorded less than 60  *)
(* seconds ago number the cap, the next operation of that kind is denied    *)
(* with rate_limit_exceeded; operations recorded 60 seconds ago or earlier  *)
(* do not count, so with fewer recent ones the denial is not given.         *)
(***************************************************************************)
Recent(times, now) ==
    Cardinality({i \in 1..Len(times) : times[i] > now - RATE_WINDOW})

Capped(g, now, tool_name) ==
    \/ Recent(g._operation_times, now) >= max_operations_per_minute
    \/ /\ tool_name = "Write"
       /\ Recent(g._write_times, now) >= max_writes_per_minute
    \/ /\ tool_name = "Bash"
       /\ Recent(g._bash_times, now) >= max_bash_per_minute

Finished(m) == m.requests.success + m.requests.error

C13_CountersMonotone ==
    [][\/ reset_metrics
       \/ /\ metrics_collector'.requests.total >= metrics_collector.requests.total
          /\ Finished(metrics_collector') >= Finished(metrics_collector)
          /\ metrics_collector'.tokens.total_input
                 >= metrics_collector.tokens.total_input
          /\ metrics_collector'.tokens.total_output
                 >= metrics_collector.tokens.total_output]_vars

\* both turns are under way, the collector was reset after the first one
\* started, and requests and tokens have been counted since
C13_Witness ==
    /\ \A t \in Turns : pc[t] \notin {"idle", "done"}
    /\ metrics_collector.requests.total = 1
    /\ metrics_collector.tokens.total_input > 0

(***************************************************************************)
(* C14: the retry loop around query(...).                                   *)
(***************************************************************************)
\* the retry notices of a turn, in the order sent
Notices(t) == SelectSeq(out[t], LAMBDA f : f.type = "text_delta" /\ f.notice)

\* min(1.0 * 2^(k-1), 10.0)
BackOff(k) == IF 2 ^ (k - 1) < 10 THEN 2 ^ (k - 1) ELSE 10

\* the k-th retry notice follows failed attempt k and announces the wait
\* min(1.0 * 2^(k-1), 10.0)
DelaysDouble(t) ==
    /\ Len(Notices(t)) = (IF xl[t].retry_count <= MAX_RETRIES
                          THEN xl[t].retry_count ELSE MAX_RETRIES)
    /\ \A k \in 1..Len(Notices(t)) :
           /\ Notices(t)[k].attempt = k
           /\ Notices(t)[k].delay = BackOff(k)

Propagated(t) ==
    /\ pc[t] = "done"
    /\ out[t][Len(out[t])].type = "error"
    /\ tracer[t].metadata.status = "error"

\* C14 as claimed: query(...) is called at most MAX_RETRIES = 3 times in a
\* turn; the wait after failed attempt k is min(1.0 * 2^(k-1), 10.0)
\* seconds; once the last (third) attempt has failed the loop is left and
\* the failure reaches the exception handler.
C14_ThreeAttempts ==
    /\ xl[1].attempts <= MAX_RETRIES
    /\ DelaysDouble(1)
    /\ xl[1].retry_count >= MAX_RETRIES => Propagated(1)

\* C14 as amended: query(...) is called at most MAX_RETRIES + 1 = 4 times
\* in a turn, a first attempt and at most three retries; the wait after
\* failed attempt k, for k up to 3, is min(1.0 * 2^(k-1), 10.0) seconds;
\* once the fourth attempt has failed the loop is left and the failure
\* reaches the exception handler.
C14_ThreeRetries ==
    /\ xl[1].attempts <= MAX_RETRIES + 1
    /\ xl[1].retry_count <= MAX_RETRIES + 1
    /\ DelaysDouble(1)
    /\ xl[1].retry_count > MAX_RETRIES => Propagated(1)

\* four attempts failed, three waits of 1, 2 and 4 seconds were announced,
\* and the turn ended with an error frame
C14_Witness ==
    /\ xl[1].attempts = MAX_RETRIES + 1
    /\ xl[1].retry_count = MAX_RETRIES + 1
    /\ Len(Notices(1)) = MAX_RETRIES
    /\ Notices(1)[MAX_RETRIES].delay = 4
    /\ Propagated(1)

(***************************************************************************)
(* C15: a step in which a turn fails - an exception that is not retried,    *)
(* or a retryable one raised by query(...) when the retries are used up -   *)
(* sends an error frame, leaves the trace with status error, adds one to    *)
(* the errors of the exception's kind and to no other kind, adds one to     *)
(* requests.error and leaves requests.success as it was.                    *)
(***************************************************************************)
Failing(t, e) ==
    \/ Raise(t, e)
    \/ xl[t].retry_count >= MAX_RETRIES /\ OpenRetryable(t, e)

Sent(before, after) ==
    SelectSeq(SubSeq(after, Len(before) + 1, Len(after)),
              LAMBDA f : f.type # "tool_start")

FrameOf(hook_event, frame) ==
    /\ hook_event.type = "pre_tool" =>
           frame.type = "hook_pre_tool" /\ frame.action = hook_event.action
    /\ hook_event.type = "post_tool" => frame.type = "hook_post_tool"
    /\ hook_event.type = "html_created" =>
           frame.type \notin {"hook_pre_tool", "hook_post_tool"}
    /\ frame.tool_name = hook_event.tool_name

C16_HookEventsEmitted ==
    [][/\ (out'[1] # << >>
           /\ out'[1][Len(out'[1])].type = "message_complete")
              => hook_events_queue'[1] = << >>
       /\ Len(hook_events_queue'[1]) < Len(hook_events_queue[1]) =>
              LET taken == SubSeq(hook_events_queue[1], 1,
                                  Len(hook_events_queue[1])
                                      - Len(hook_events_queue'[1]))
                  sent == Sent(out[1], out'[1])
              IN  /\ Len(sent) = Len(taken)
                  /\ \A k \in 1..Len(taken) : FrameOf(taken[k], sent[k])]_vars

(***************************************************************************)
(* C17: by the end of a completed turn, every Write to a path ending in     *)
(* .html that the sandbox allowed and that succeeded has a hook_post_tool   *)
(* frame for Write on the stream and a further frame that carries the URL   *)
(* /sandbox/<filename> of the file.                                         *)
(***************************************************************************)
HtmlWritten(t) ==
    {id \in DOMAIN rt[t].tools :
        LET u == rt[t].tools[id] IN
        /\ u.name = "Write"
        /\ EndsWith(LastSegment(u.input.file_path), <<".","h","t","m","l">>)
        /\ u.decision = "continue"
        /\ u.phase \in {"posted", "resulted"}
        /\ Truthy(u.tool_result)}

CarriesUrl(frame, filename) ==
    /\ "url" \in DOMAIN frame
    /\ frame.url.filename = filename

C17_HtmlLinkFrame ==
    Completed(1) =>
        \A id \in HtmlWritten(1) :
            /\ \E i \in FramesAt(1, {"hook_post_tool"}) :
                   out[1][i].tool_name = "Write"
            /\ \E i \in DOMAIN out[1] :
                   CarriesUrl(out[1][i],
                              PathName(rt[1].tools[id].input.file_path))

(***************************************************************************)
(* C18: sandbox_check_tool denies a Read, Glob or Grep call when the base   *)
(* name of the path it names, or its pattern, is one of the sensitive names *)
(* .env, .env.*, credentials, secrets, password, token, and allows every    *)
(* other call of these tools.                                               *)
(***************************************************************************)
SensitiveNames ==
    {<<".", "e", "n", "v">>,
     <<"c", "r", "e", "d", "e", "n", "t", "i", "a", "l", "s">>,
     <<"s", "e", "c", "r", "e", "t", "s">>,
     <<"p", "a", "s", "s", "w", "o", "r", "d">>,
     <<"t", "o", "k", "e", "n">>}

\* name is one of the sensitive names, or .env followed by a further suffix
IsSensitive(name) ==
    \/ name \in SensitiveNames
    \/ IsPrefix(<<".","e","n","v",".">>, name) /\ Len(name) > 5

\* pattern is a sensitive name, or a sensitive name followed by "*"
NamesSensitive(pattern) ==
    \/ IsSensitive(pattern)
    \/ /\ pattern # EmptyStr
       /\ pattern[Len(pattern)] = "*"
       /\ IsSensitive(SubSeq(pattern, 1, Len(pattern) - 1))

ReferencedPath(tool_input) ==
    IF tool_input.file_path # EmptyPath THEN tool_input.file_path
    ELSE tool_input.path

C18_ReadDenyList ==
    (probe.returned /\ probe.tool_name \in {"Read", "Glob", "Grep"}) =>
        (probe.result.allowed <=>
            /\ ~ IsSensitive(PathName(ReferencedPath(probe.tool_input)))
            /\ ~ NamesSensitive(probe.tool_input.pattern))

\* a ".." directly followed by a slash or a backslash
TraversalAt(command) ==
    \E i \in 1..(Len(command) - 2) :
        /\ command[i] = "." /\ command[i + 1] = "."
        /\ command[i + 2] \in {"/", "\\"}

\* the text taken from the command names a place outside every allowed root
Outside(path_str) ==
    \A root \in ALLOWED_DIRS : ~ Under(root, Target(ParsePath(path_str)))

ExtractsOutside(command) ==
    \E n \in 1..Len(ExtractedPaths(command)) :
        Outside(ExtractedPaths(command)[n])

\* C19: sandbox_check_tool denies a Bash command exactly when the command
\* holds "../" or "..\", or one of the paths its patterns extract from
\* the command lies outside the allowed roots.
C19_BashPaths ==
    (probe.returned /\ probe.tool_name = "Bash") =>
        (~ probe.result.allowed <=>
            (TraversalAt(probe.tool_input.command)
                \/ ExtractsOutside(probe.tool_input.command)))

C19_Witness ==
    /\ probe.returned
    /\ probe.tool_name = "Bash"
    /\ ~ TraversalAt(probe.tool_input.command)
    /\ ExtractsOutside(probe.tool_input.command)
    /\ ~ probe.result.allowed

\* the command, letters lowered, matches a pattern of the policy as written
MatchesDangerous(command) ==
    \E n \in 1..Len(dangerous_commands) :
        re_search(dangerous_commands[n], Lower(command), FALSE)

C21_SurfacesAgree ==
    probe.returned =>
        (probe.permission = "deny" <=> probe.decision = "block")

C21_Witness ==
    /\ probe.returned
    /\ probe.tool_name = "Bash"
    /\ probe.permission = "deny"
    /\ probe.decision = "block"

\* the pre-tool hook of the tool use has run
HookRan(t, id) ==
    id \in DOMAIN rt[t].tools /\ rt[t].tools[id].phase # "announced"

\* C22: the hook_pre_tool frame of a tool whose pre-tool hook ran stands
\* before the tool_start frame of that tool.
C22_PreToolBeforeStart ==
    \A t \in Turns : \A i \in FramesAt(t, {"tool_start"}) :
        HookRan(t, out[t][i].tool_id) =>
            \E j \in FramesAt(t, {"hook_pre_tool"}) :
                j < i /\ out[t][j].tool_use_id = out[t][i].tool_id

\* the assistant message, counted within the turn, that announced a tool use
MessageOf(t, id) == rt[t].tools[id].msg

Advanced(t) ==
    /\ current_iteration'[t] = current_iteration[t] + 1
    /\ current_text'[t] = << >>

Kept(t) ==
    /\ current_iteration'[t] = current_iteration[t]
    /\ current_text'[t] = current_text[t]

\* C24 as claimed: on a tool-use block current_iteration is incremented
\* and current_text reset exactly when tool_states is non-empty or
\* current_text is non-empty; otherwise both are left unchanged.
C24_IterationWhenNonEmpty ==
    [][\A t \in Turns : ToolUseBlock(t) =>
          IF DOMAIN tool_states[t] # {} \/ current_text[t] # << >>
          THEN Advanced(t) ELSE Kept(t)]_vars

\* C24 amended: on a tool-use block current_iteration is incremented and
\* current_text reset exactly when tool_states is empty or current_text is
\* non-empty; otherwise both are left unchanged.
C24_IterationWhenFirstOrText ==
    [][\A t \in Turns : ToolUseBlock(t) =>
          IF DOMAIN tool_states[t] = {} \/ current_text[t] # << >>
          THEN Advanced(t) ELSE Kept(t)]_vars

\* the first tool use of a turn has advanced the counter to 1, and a
\* second one, handled with the first on record and no text held, kept it
C24_Witness ==
    \E t \in Turns : \E a, b \in DOMAIN tool_states[t] :
        /\ a[2] < b[2]
        /\ tool_states[t][a].iteration = 1
        /\ tool_states[t][b].iteration = 1
        /\ current_iteration[t] = 1

\* the frames that report a tool use, and whether a text frame stands
\* between two places of the stream
ToolReports(t) == FramesAt(t, {"tool_start", "agent_spawn"})
TextBetween(t, i, j) ==
    \E k \in FramesAt(t, {"text_delta"}) : i < k /\ k < j

\* C25: the first tool use of a turn is reported with iteration 1; each
\* further one is reported with the iteration of the one before it, raised
\* by one exactly when a text frame was sent between the two.
C25_IterationFollowsText ==
    \A t \in Turns : \A j \in ToolReports(t) :
        IF \A i \in ToolReports(t) : i >= j
        THEN out[t][j].iteration = 1
        ELSE LET i == CHOOSE i \in ToolReports(t) :
                          i < j /\ \A m \in ToolReports(t) : m < j => m <= i
             IN  out[t][j].iteration =
                     out[t][i].iteration + (IF TextBetween(t, i, j) THEN 1 ELSE 0)

\* text before the first tool use, which is reported with iteration 1, and
\* text again before the second, reported with iteration 2
C25_Witness ==
    \E t \in Turns : \E i, j \in ToolReports(t) :
        /\ i < j
        /\ TextBetween(t, 0, i)
        /\ out[t][i].iteration = 1
        /\ TextBetween(t, i, j)
        /\ out[t][j].iteration = 2

\* how many events of a type the trace holds
CountEvents(tr, event_type) ==
    Cardinality({i \in DOMAIN tr.events : tr.events[i].event_type = event_type})

\* C26: a pre-tool hook invocation that denies appends exactly one
\* sandbox_block event to the trace, raises stats.sandbox_blocks by one and
\* leaves stats.errors and the trace status as they were.
C26_DenialIsNoError ==
    [][\A t \in Turns : \A id \in ToolIds(t) :
          (PreToolUse(t, id) /\ rt'[t].tools[id].decision = "block") =>
              /\ CountEvents(tracer'[t], "sandbox_block")
                     = CountEvents(tracer[t], "sandbox_block") + 1
              /\ CountEvents(tracer'[t], "error") = CountEvents(tracer[t], "error")
              /\ tracer'[t].stats.sandbox_blocks = tracer[t].stats.sandbox_blocks + 1
              /\ tracer'[t].stats.errors = tracer[t].stats.errors
              /\ tracer'[t].metadata.status = tracer[t].metadata.status]_vars

\* a turn with a denied tool use that has ended with message_complete, its
\* trace completed and free of errors
C26_Witness ==
    \E t \in Turns :
        /\ Completed(t)
        /\ \E id \in ToolIds(t) : rt[t].tools[id].decision = "block"
        /\ tracer[t].stats.sandbox_blocks = 1
        /\ tracer[t].stats.errors = 0
        /\ tracer[t].metadata.status = "completed"

\* the retry notices of a turn stand before every other frame but the
\* session_config frame, which is sent before the stream is opened
NoticesFirst(t) ==
    \A i, j \in DOMAIN out[t] :
        (/\ out[t][i].type = "text_delta" /\ out[t][i].notice
         /\ out[t][j].type # "session_config"
         /\ ~ (out[t][j].type = "text_delta" /\ out[t][j].notice)) => i < j

\* the text of the n-th retry notice names n out of 3
NamesRetry(frame, n) ==
    /\ frame.type = "text_delta"
    /\ frame.text[2] = ToString(n)
    /\ frame.text[3] = "/"
    /\ frame.text[4] = "3"

C28_OnePreToolEvent ==
    [][\A t \in Turns : \A id \in ToolIds(t) :
          PreToolUse(t, id) =>
              LET before  == hook_events_queue[t]
                  after   == hook_events_queue'[t]
                  allowed == sandbox_check_tool(rt[t].tools[id].name,
                                                rt[t].tools[id].input).allowed
              IN  /\ Len(after) = Len(before) + 1
                  /\ SubSeq(after, 1, Len(before)) = before
                  /\ after[Len(after)].type = "pre_tool"
                  /\ after[Len(after)].tool_name = rt[t].tools[id].name
                  /\ after[Len(after)].action =
                         (IF allowed THEN "allow" ELSE "block")
                  /\ rt'[t].tools[id].decision =
                         (IF allowed THEN "continue" ELSE "block")]_vars

\* a queue that holds the event of an allowed and that of a denied tool use
C28_Witness ==
    \E t \in Turns : \E i, j \in DOMAIN hook_events_queue[t] :
        /\ hook_events_queue[t][i].type = "pre_tool"
        /\ hook_events_queue[t][i].action = "allow"
        /\ hook_events_queue[t][j].type = "pre_tool"
        /\ hook_events_queue[t][j].action = "block"

\* the last five characters of the path spell .html, in any letter case
HtmlTarget(file_path) ==
    /\ file_path.segs # << >>
    /\ LET n == file_path.segs[Len(file_path.segs)] IN
       /\ Len(n) >= 5
       /\ Lower(SubSeq(n, Len(n) - 4, Len(n))) = <<".", "h", "t", "m", "l">>

\* C29: the pending map of a turn holds an entry for a tool use exactly
\* when that tool use is a Write to a target ending in .html which the
\* pre-tool hook has allowed and whose post-tool hook has not run yet; a
\* denied Write has no entry, and none is left once the post-tool hook has
\* run, with a result or without.
C29_PendingHtml ==
    \A t \in Turns :
        /\ DOMAIN pending_html_files[t] \subseteq ToolIds(t)
        /\ \A id \in ToolIds(t) :
               id \in DOMAIN pending_html_files[t] <=>
                   /\ rt[t].tools[id].name = "Write"
                   /\ HtmlTarget(rt[t].tools[id].input.file_path)
                   /\ rt[t].tools[id].phase = "allowed"

\* an entry was made and is gone after a post-tool hook that carried no
\* result
C29_Witness ==
    \E t \in Turns : \E id \in ToolIds(t) :
        /\ rt[t].tools[id].name = "Write"
        /\ HtmlTarget(rt[t].tools[id].input.file_path)
        /\ rt[t].tools[id].decision = "continue"
        /\ rt[t].tools[id].phase = "posted"
        /\ rt[t].tools[id].tool_result = NoValue
        /\ id \notin DOMAIN pending_html_files[t]

\* how many tool_start events of the trace name the Task tool
CountTaskStarts(tr) ==
    Cardinality({i \in DOMAIN tr.events :
                    /\ tr.events[i].event_type = "tool_start"
                    /\ tr.events[i].data.name = "Task"})

\* the rolling stats of a trace agree with its events
StatsAgree(tr) ==
    /\ tr.stats.tool_calls = CountEvents(tr, "tool_start")
    /\ tr.stats.sub_agents = CountTaskStarts(tr)
    /\ tr.stats.sandbox_blocks = CountEvents(tr, "sandbox_block")
    /\ tr.stats.errors = CountEvents(tr, "error")

\* the events of tr are the first events of tr2
Grown(tr, tr2) ==
    /\ Len(tr.events) <= Len(tr2.events)
    /\ SubSeq(tr2.events, 1, Len(tr.events)) = tr.events

\* C30: whatever has been logged to a trace, its stats agree with its
\* events: tool_calls is the number of tool_start events, sub_agents the
\* number of tool_start events naming Task, sandbox_blocks the number of
\* sandbox_block events and errors the number of error events; and every
\* step leaves the events already in the list in place.
C30_StatsAgreeWithEvents ==
    /\ [](\A t \in Turns : StatsAgree(tracer[t]))
    /\ [][\A t \in Turns : Grown(tracer[t], tracer'[t])]_vars

\* a trace holding a Task start, another tool's start and an error
C30_Witness ==
    \E t \in Turns :
        /\ CountEvents(tracer[t], "tool_start") >= 2
        /\ CountTaskStarts(tracer[t]) = 1
        /\ CountEvents(tracer[t], "error") >= 1
        /\ tracer[t].stats.sub_agents = 1

\* C31: a trace file whose metadata says completed or error also holds
\* end_time, duration_ms and the stats in its metadata.
C31_FinalizedCarriesStats ==
    \A t \in Turns :
        (/\ tracer[t].file.written
         /\ tracer[t].file.metadata.status \in {"completed", "error"})
            => tracer[t].file.metadata.finalized

\* C32: a tool-use block puts its tool into tool_states with status
\* running, and handling the tool-result block of a tool on record leaves
\* that tool's status in tool_states at error when the block has is_error
\* and at completed otherwise.
C32_StatusFollowsResult ==
    [][\A t \in Turns :
          /\ ToolUseBlock(t) =>
                tool_states'[t][Block(t).id].status = "running"
          /\ (ToolResultBlock(t)
              /\ Block(t).tool_use_id \in DOMAIN tool_states[t]) =>
                tool_states'[t][Block(t).tool_use_id].status =
                    IF Block(t).is_error THEN "error" ELSE "completed"]_vars

StopReasons == {"error", "max_turns", "end_turn"}

\* what the completion message calls for
StopReasonOf(msg) ==
    IF msg.is_error THEN "error"
    ELSE IF msg.num_turns >= 30 THEN "max_turns"
    ELSE "end_turn"

\* C33: when the completion message of the runtime has been taken, the
\* stop reason held for message_complete is error if the message reports
\* is_error, else max_turns if its num_turns is at least 30, else end_turn;
\* and the stop_reason of every message_complete frame is one of these
\* three values.
C33_StopReason ==
    /\ [][\A t \in Turns :
             (NextMessage(t) /\ Head(inbox[t]) \in ResultMsgs(rt[t].profile))
                 => xl'[t].stop_reason = StopReasonOf(Head(inbox[t]))]_vars
    /\ [](\A t \in Turns : \A i \in DOMAIN out[t] :
             out[t][i].type = "message_complete" =>
                 out[t][i].stop_reason \in StopReasons)

\* the frame a tool-use block sends for its tool use: tool_start, or
\* agent_spawn when the tool is Task
Announces(frame, tool_id) ==
    \/ frame.type = "tool_start" /\ frame.tool_id = tool_id
    \/ frame.type = "agent_spawn" /\ frame.agent_id = tool_id

\* C34: every tool_result frame of a turn names a tool use that a tool-use
\* block of the same turn has put on record and announced in an earlier
\* frame, and every tool_result event of the turn's trace has the
\* tool_start event of its tool use before it.
C34_ResultHasStart ==
    \A t \in Turns :
        /\ \A i \in DOMAIN out[t] :
               out[t][i].type = "tool_result" =>
                   /\ out[t][i].tool_id \in DOMAIN tool_states[t]
                   /\ \E j \in 1..(i - 1) :
                          Announces(out[t][j], out[t][i].tool_id)
        /\ \A i \in DOMAIN tracer[t].events :
               tracer[t].events[i].event_type = "tool_result" =>
                   \E j \in 1..(i - 1) :
                       /\ tracer[t].events[j].event_type = "tool_start"
                       /\ tracer[t].events[j].data.tool_id =
                              tracer[t].events[i].data.tool_id

\* two tool uses have been announced and both results reported, the second
\* tool's result first
C34_Witness ==
    \E t \in Turns : \E i, j, k, l \in DOMAIN out[t] :
        /\ i < j /\ j < k /\ k < l
        /\ out[t][i].type = "tool_start"
        /\ out[t][j].type = "tool_start"
        /\ out[t][k].type = "tool_result"
        /\ out[t][l].type = "tool_result"
        /\ out[t][k].tool_id = out[t][j].tool_id
        /\ out[t][l].tool_id = out[t][i].tool_id

\* the success rate get_metrics reports, rounded down
success_rate(m) ==
    IF m.requests.total > 0
    THEN (m.requests.success * 100) \div m.requests.total
    ELSE 100

\* C35: the collector never counts more finished requests than started
\* ones, and the success rate it reports never exceeds 100.
C35_FinishedWithinTotal ==
    /\ metrics_collector.requests.success + metrics_collector.requests.error
           <= metrics_collector.requests.total
    /\ success_rate(metrics_collector) <= 100

\* C36: two tool uses on record with the same parallel group, other than
\* none, have the same iteration.
C36_GroupSharesIteration ==
    \A t \in Turns : \A a, b \in DOMAIN tool_states[t] :
        (/\ tool_states[t][a].parallel_group # NoGroup
         /\ tool_states[t][a].parallel_group = tool_states[t][b].parallel_group)
            => tool_states[t][a].iteration = tool_states[t][b].iteration

\* text without its U+FFFD characters
WithoutFFFD(text) == SelectSeq(text, LAMBDA c : c # FFFD)

\* the text of the text_delta frames, retry notices apart, that stand after
\* the last tool_start or agent_spawn frame: what has been sent since
\* current_text was last reset
RECURSIVE SentSinceReset(_)
SentSinceReset(frames) ==
    IF frames = << >> THEN << >>
    ELSE LET last == frames[Len(frames)]
             rest == SubSeq(frames, 1, Len(frames) - 1)
         IN  IF last.type \in {"tool_start", "agent_spawn"} THEN << >>
             ELSE IF last.type = "text_delta" /\ ~ last.notice
             THEN SentSinceReset(rest) \o last.text
             ELSE SentSinceReset(rest)

\* C37: once a text block with text t has been handled, or a completion
\* message with result text t, the text deltas sent since current_text was
\* last reset spell t without its U+FFFD characters.
C37_NoTextLost ==
    [][\A t \in Turns :
          /\ TextBlock(t) =>
                SentSinceReset(out'[t]) = WithoutFFFD(Block(t).text)
          /\ (/\ NextMessage(t)
              /\ Head(inbox[t]).subtype = "success"
              /\ Head(inbox[t]).result # << >>) =>
                SentSinceReset(out'[t]) = WithoutFFFD(Head(inbox[t]).result)]_vars

\* the entries of a window that are less than one window old
Fresh(times, now) == SelectSeq(times, LAMBDA x : now - x < RATE_WINDOW)

\* C38: a denied call of check_operation leaves each of the three windows
\* holding its entries less than 60 seconds old and nothing else; an
\* allowed call adds the current time once to the all-operations window
\* and once to the write window for a Write, to the shell window for a
\* Bash, and to no other window; and no window holds more entries than
\* its cap.
C38_WindowsRecordAllowedOnly ==
    /\ [][clock' = clock =>
            IF probe'.result.allowed
            THEN /\ guard'._operation_times =
                        Append(Fresh(guard._operation_times, clock), clock)
                 /\ guard'._write_times =
                        IF probe'.tool_name = "Write"
                        THEN Append(Fresh(guard._write_times, clock), clock)
                        ELSE Fresh(guard._write_times, clock)
                 /\ guard'._bash_times =
                        IF probe'.tool_name = "Bash"
                        THEN Append(Fresh(guard._bash_times, clock), clock)
                        ELSE Fresh(guard._bash_times, clock)
            ELSE /\ guard'._operation_times = Fresh(guard._operation_times, clock)
                 /\ guard'._write_times = Fresh(guard._write_times, clock)
                 /\ guard'._bash_times = Fresh(guard._bash_times, clock)]_vars
    /\ [](/\ Len(guard._operation_times) <= max_operations_per_minute
          /\ Len(guard._write_times) <= max_writes_per_minute
          /\ Len(guard._bash_times) <= max_bash_per_minute)

\* a Write was denied for its path with one operation on record, and the
\* windows hold what they held
C38_Witness ==
    /\ probe.returned
    /\ probe.tool_name = "Write"
    /\ ~ probe.result.allowed
    /\ probe.result # GuardDeny(RATE_LIMIT)
    /\ Len(guard._operation_times) = 1
    /\ Len(guard._write_times) = 1
    /\ Len(guard._bash_times) = 0

=========================================================================
